---- MODULE Spec2Model ----
(***************************************************************************)
(* Session-based OTP verification and the auth flow of the tour-fastapi   *)
(* application: app/services/otp_session.py, app/web/routes.py (auth      *)
(* handlers), app/api/v1/auth.py, app/core/security.py, app/web/deps.py.  *)
(*                                                                         *)
(* Conventions.  A Python value that may be None (or a dict key that may  *)
(* be absent) is a sequence of length 0 or 1: None == <<>>, Some(x) ==    *)
(* <<x>>.  A str that the code inspects character by character (an OTP    *)
(* code) is a sequence of one-character strings; other strs are strings.  *)
(* Time is an integer number of minutes.                                  *)
(***************************************************************************)
EXTENDS Integers, Sequences, FiniteSets, TLC, Bags

VARIABLES
    now,        \* the wall clock, datetime.now(timezone.utc)
    users,      \* the users table: a sequence of rows, row i has id i
    agencies,   \* the agencies table: a sequence of rows, row i has registration_id i
    sessions,   \* per browser: the contents of the signed session cookie
    cookies,    \* per browser: the access_token cookie
    resp,       \* the last HTTP response sent
    ret,        \* the last value returned by a call of the OTP service
    hist,       \* history of the current OTP context of the OTP service runs
    inflight,   \* the bag of requests the worker threads are in the middle of
    tables      \* the other tables: packages, itineraries, inquiries, reset tokens

vars == <<now, users, agencies, sessions, cookies, resp, ret, hist, inflight, tables>>

(***************************************************************************)
(* Bounds of the model.                                                    *)
(***************************************************************************)
NumSessions == 2      \* browsers
MaxTime == 1          \* last clock value of the web specification
OtpMaxTime == 2       \* last clock value of the OTP service specification
MaxNum == 1           \* OTP service runs: the draws are 0..MaxNum, a part of randbelow's range
WebMaxNum == 0        \* web specification: the draws are 0..WebMaxNum
MaxAttempts == 2      \* max_attempts arguments of the OTP service runs: 0..MaxAttempts
MaxMinutes == 1       \* minutes arguments of the OTP service runs: 1..MaxMinutes
NumWorkers == 2       \* requests that can be in progress at the same time
VerifyNum == 0        \* the draw of the contexts of the interleaved verify requests
MaxCompared == 3      \* verify requests are admitted while fewer comparisons than this were made
MaxUserId == 2        \* the ids a presented token can name: 1..MaxUserId

(***************************************************************************)
(* Program constants.                                                      *)
(***************************************************************************)
DefaultCodeLen == 6            \* new_otp_ctx(code_len=6), generate_numeric_otp(n=6)
DefaultMaxAttempts == 6        \* new_otp_ctx(max_attempts=6)
OTP_EXP_MINUTES == 10          \* settings.OTP_EXP_MINUTES
ACCESS_TOKEN_EXPIRE_MINUTES == 15
REFRESH_TOKEN_EXPIRE_DAYS == 7

None == <<>>
Some(x) == <<x>>
Get(o) == o[1]

Sids == 1..NumSessions

(***************************************************************************)
(* Strings as the code handles them.                                       *)
(***************************************************************************)
\* str.strip(): drop leading and trailing whitespace
RECURSIVE LStrip(_)
LStrip(s) == IF s # <<>> /\ Head(s) = " " THEN LStrip(Tail(s)) ELSE s

RECURSIVE RStrip(_)
RStrip(s) == IF s # <<>> /\ s[Len(s)] = " " THEN RStrip(SubSeq(s, 1, Len(s) - 1)) ELSE s

strip(s) == RStrip(LStrip(s))

\* the decimal digits of a natural number, most significant first
RECURSIVE DecimalDigits(_)
DecimalDigits(num) ==
    IF num < 10 THEN <<ToString(num)>>
    ELSE DecimalDigits(num \div 10) \o <<ToString(num % 10)>>

\* f"{num:0{n}d}": pad with zeros on the left up to width n, never truncate
RECURSIVE ZeroPad(_, _)
ZeroPad(digits, n) == IF Len(digits) >= n THEN digits ELSE ZeroPad(<<"0">> \o digits, n)

\* generate_numeric_otp(n); num is the value secrets.randbelow(10 ** n) returned
generate_numeric_otp(n, num) ==
    LET m == IF n < 1 THEN 6 ELSE n
    IN  ZeroPad(DecimalDigits(num), m)

\* datetime.isoformat() and datetime.fromisoformat() of an aware datetime
isoformat(t) == [iso |-> t]
fromisoformat(s) == s.iso

(***************************************************************************)
(* app/services/otp_session.py                                             *)
(***************************************************************************)
EmptySession == [csrf_token |-> None, otp_ctx |-> None, post_otp_user_id |-> None,
                 active_agency_id |-> None, captcha |-> None]

\* the tables of app/db/models that start empty
EmptyTables == [packages |-> <<>>, itineraries |-> {}, inquiries |-> <<>>,
                password_reset_tokens |-> <<>>]

\* a new_otp_ctx that leaves an existing context in place (a setdefault)
NewOtpCtxKeepsExisting(sess, email, user_id, purpose, minutes, code_len, max_attempts, num, t) ==
    LET ctx == [code |-> generate_numeric_otp(code_len, num),
                email |-> email,
                user_id |-> user_id,
                purpose |-> purpose,
                created_at |-> isoformat(t),
                expires_at |-> isoformat(t + minutes),
                attempts_left |-> max_attempts]
    IN  IF sess.otp_ctx # None THEN sess
        ELSE [sess EXCEPT !.otp_ctx = Some(ctx), !.post_otp_user_id = Some(user_id)]

\* new_otp_ctx: the session after the call; the context returned is the one stored
\* a new context that leaves a pending user id of the session as it is
NewOtpCtxKeepsPending(sess, email, user_id, purpose, minutes, code_len, max_attempts, num, t) ==
    LET ctx == [code |-> generate_numeric_otp(code_len, num),
                email |-> email,
                user_id |-> user_id,
                purpose |-> purpose,
                created_at |-> isoformat(t),
                expires_at |-> isoformat(t + minutes),
                attempts_left |-> max_attempts]
    IN  [sess EXCEPT !.otp_ctx = Some(ctx),
                     !.post_otp_user_id = IF @ = None THEN Some(user_id) ELSE @]

new_otp_ctx(sess, email, user_id, purpose, minutes, code_len, max_attempts, num, t) ==
    LET ctx == [code |-> generate_numeric_otp(code_len, num),
                email |-> email,
                user_id |-> user_id,
                purpose |-> purpose,
                created_at |-> isoformat(t),
                expires_at |-> isoformat(t + minutes),
                attempts_left |-> max_attempts]
    IN  [sess EXCEPT !.otp_ctx = Some(ctx), !.post_otp_user_id = Some(user_id)]

get_otp_ctx(sess) == sess.otp_ctx

\* a clear_otp_ctx that pops another key
ClearOtpCtxWrongKey(sess) == [sess EXCEPT !.post_otp_user_id = None]

clear_otp_ctx(sess) == [sess EXCEPT !.otp_ctx = None]

\* an expiry test that counts the expiry instant as expired
IsExpiredAtInstant(ctx, t) == t >= fromisoformat(ctx.expires_at)

_is_expired(ctx, t) == t > fromisoformat(ctx.expires_at)

\* an exhaustion test that never finds the attempts used up
ExhaustedNever(attempts_left) == FALSE

\* an exhaustion test that allows one attempt more
ExhaustedOffByOne(attempts_left) == attempts_left < 0

\* the tests of lines 95 and 108: no attempt is left
Exhausted(attempts_left) == attempts_left <= 0

\* a decrement that is forgotten
DecrementForgotten(attempts_left) == attempts_left

\* attempts_left -= 1
Decrement(attempts_left) == attempts_left - 1

MsgNoSession == "No OTP session found. Please log in again."
MsgExpired == "OTP expired. Please log in again."
MsgTooMany == "Too many attempts. Please log in again."
MsgTooManyIncorrect == "Too many incorrect attempts. Please log in again."
MsgInvalid(n) == "Invalid code. " \o ToString(n) \o " attempt(s) remaining."
MsgVerified == "OTP verified."

\* a comparison that lets a blank submission through
CodeMismatchBlankPasses(submitted, real) == submitted # <<>> /\ submitted # real

\* the comparison of line 104: TRUE when the submitted code is taken as wrong
CodeMismatch(submitted, real) == submitted = <<>> \/ submitted # real

\* a check that tests the attempts before the expiry
CheckExhaustedBeforeExpired(sess, code, t) ==
    LET ctx == get_otp_ctx(sess) IN
    IF ctx = None
    THEN [session |-> sess, ok |-> FALSE, msg |-> MsgNoSession]
    ELSE IF Exhausted(Get(ctx).attempts_left)
    THEN [session |-> clear_otp_ctx(sess), ok |-> FALSE, msg |-> MsgTooMany]
    ELSE IF _is_expired(Get(ctx), t)
    THEN [session |-> clear_otp_ctx(sess), ok |-> FALSE, msg |-> MsgExpired]
    ELSE IF CodeMismatch(strip(code), strip(Get(ctx).code))
    THEN [session |-> clear_otp_ctx(sess), ok |-> FALSE, msg |-> MsgTooManyIncorrect]
    ELSE [session |-> clear_otp_ctx(sess), ok |-> TRUE, msg |-> MsgVerified]

\* check_code_and_update: the session after the call and the pair returned
check_code_and_update(sess, code, t) ==
    LET ctx == get_otp_ctx(sess) IN
    IF ctx = None
    THEN [session |-> sess, ok |-> FALSE, msg |-> MsgNoSession]
    ELSE IF _is_expired(Get(ctx), t)
    THEN [session |-> clear_otp_ctx(sess), ok |-> FALSE, msg |-> MsgExpired]
    ELSE IF Exhausted(Get(ctx).attempts_left)
    THEN [session |-> clear_otp_ctx(sess), ok |-> FALSE, msg |-> MsgTooMany]
    ELSE LET submitted == strip(code)
             real == strip(Get(ctx).code)
             attempts_left == Decrement(Get(ctx).attempts_left)
             stored == [sess EXCEPT !.otp_ctx = Some([Get(ctx) EXCEPT !.attempts_left = attempts_left])]
         IN  IF CodeMismatch(submitted, real)
             THEN IF Exhausted(attempts_left)
                  THEN [session |-> clear_otp_ctx(stored), ok |-> FALSE, msg |-> MsgTooManyIncorrect]
                  ELSE [session |-> stored, ok |-> FALSE, msg |-> MsgInvalid(attempts_left)]
             ELSE [session |-> clear_otp_ctx(sess), ok |-> TRUE, msg |-> MsgVerified]

(***************************************************************************)
(* app/core/security.py                                                    *)
(***************************************************************************)
\* pwd_context.hash: a salted one-way hash, kept as the pair it verifies against
hash_password(password) == <<"bcrypt", password>>

verify_password(plain_password, password_hash) ==
    IF password_hash = None THEN FALSE
    ELSE Get(password_hash) = <<"bcrypt", plain_password>>

\* settings.SECRET_KEY, the key jwt.encode signs with
SECRET_KEY == "server-key"

\* create_token: the payload and the key it is signed with; expires_delta in minutes
create_token(user_id, expires_delta, token_type, t) ==
    [sub |-> ToString(user_id), type |-> token_type, iat |-> t, exp |-> t + expires_delta,
     key |-> SECRET_KEY]

AccessTtl == ACCESS_TOKEN_EXPIRE_MINUTES
RefreshTtl == REFRESH_TOKEN_EXPIRE_DAYS * 24 * 60

\* jwt.decode: a JWTError for a string that is no JWT or is signed with another
\* key, and for a token whose exp has passed
JWTError(token, t) == token.key # SECRET_KEY \/ t > token.exp

\* decode_token accepts a type that differs from the expected one
DecodeTokenIgnoresType(token, token_type, t) ==
    IF JWTError(token, t) THEN [error |-> "Invalid token", payload |-> token]
    ELSE IF "sub" \notin DOMAIN token
    THEN [error |-> "Invalid token payload (missing 'sub')", payload |-> token]
    ELSE [error |-> "", payload |-> token]

\* decode_token: the payload, or the message of the ValueError it raises
decode_token(token, token_type, t) ==
    IF JWTError(token, t) THEN [error |-> "Invalid token", payload |-> token]
    ELSE IF token_type # None /\ token.type # Get(token_type)
    THEN [error |-> "Wrong token type", payload |-> token]
    ELSE IF "sub" \notin DOMAIN token
    THEN [error |-> "Invalid token payload (missing 'sub')", payload |-> token]
    ELSE [error |-> "", payload |-> token]

\* int(payload["sub"]) for the ids the users table can hold
ParseInt(str, bound) ==
    IF \E n \in 0..bound : ToString(n) = str
    THEN CHOOSE n \in 0..bound : ToString(n) = str
    ELSE 0

(***************************************************************************)
(* The users table: db.query(User).filter(User.email == ...).first(),      *)
(* db.get(User, id), db.add + db.commit.                                   *)
(***************************************************************************)
FindByEmail(rows, email) ==
    IF \E i \in 1..Len(rows) : rows[i].email = email
    THEN Some(rows[CHOOSE i \in 1..Len(rows) :
                     /\ rows[i].email = email
                     /\ \A j \in 1..Len(rows) : rows[j].email = email => i <= j])
    ELSE None

GetUser(rows, id) == IF id \in 1..Len(rows) THEN Some(rows[id]) ELSE None

\* the unique index on users.email is not there
EmailIndexMissing(rows, email) == FALSE

\* users.email is unique: the INSERT of a second row with this email fails and
\* db.commit() raises IntegrityError
EmailTaken(rows, email) == FindByEmail(rows, email) # None

\* User(...) as register_submit builds it, with the autoincrement id
NewWebUser(rows, email, password, t) ==
    [id |-> Len(rows) + 1, email |-> email, password_hash |-> Some(hash_password(password)),
     is_active |-> TRUE, last_login_at |-> Some(t),
     is_email_verified |-> FALSE, email_verified_at |-> None]

\* User(...) as the API signup builds it: the verification columns take their defaults
NewApiUser(rows, email, password) ==
    [id |-> Len(rows) + 1, email |-> email, password_hash |-> Some(hash_password(password)),
     is_active |-> TRUE, last_login_at |-> None,
     is_email_verified |-> FALSE, email_verified_at |-> None]

\* User(...) as the API create_user builds it: no password, the other columns at their defaults
NewPlainUser(rows, email) ==
    [id |-> Len(rows) + 1, email |-> email, password_hash |-> None,
     is_active |-> TRUE, last_login_at |-> None,
     is_email_verified |-> FALSE, email_verified_at |-> None]

(***************************************************************************)
(* app/web/deps.py                                                         *)
(***************************************************************************)
\* a get_csrf_token that stores a new token on every call
GetCsrfTokenAlwaysNew(sess, token) == [sess EXCEPT !.csrf_token = Some(token)]

\* get_csrf_token; token is the value secrets.token_urlsafe(32) would return
get_csrf_token(sess, token) ==
    IF sess.csrf_token = None THEN [sess EXCEPT !.csrf_token = Some(token)] ELSE sess

\* the strings of the model that hold a character outside ASCII
NonAscii == {"t\\u00f6ken"}
isascii(str) == str \notin NonAscii

\* hmac.compare_digest on two str: it raises TypeError unless both are ASCII
compare_digest(a, b) ==
    IF ~isascii(a) \/ ~isascii(b) THEN "TypeError"
    ELSE IF a = b THEN "True" ELSE "False"

\* require_csrf: "" when it returns, else the detail of the HTTPException(400)
\* it raises, or "TypeError" when compare_digest raises
require_csrf(sess, token_from_form) ==
    IF token_from_form = "" THEN "Missing CSRF token"
    ELSE IF sess.csrf_token = None THEN "CSRF token not in session"
    ELSE LET equal == compare_digest(Get(sess.csrf_token), token_from_form) IN
         IF equal = "TypeError" THEN "TypeError"
         ELSE IF equal = "False" THEN "Invalid CSRF token"
         ELSE ""

\* get_current_user_from_cookie for the cookie "Bearer <token>" (None: no cookie):
\* the user returned, or raised when decode_token raises its ValueError
get_current_user_from_cookie(cookie, rows, t) ==
    IF cookie = None THEN [raised |-> FALSE, user |-> None]
    ELSE LET decoded == decode_token(Get(cookie), None, t) IN
         IF decoded.error # "" THEN [raised |-> TRUE, user |-> None]
         ELSE IF decoded.payload.type # "access" THEN [raised |-> FALSE, user |-> None]
         ELSE IF decoded.payload.sub = "" THEN [raised |-> FALSE, user |-> None]
         ELSE [raised |-> FALSE,
               user |-> GetUser(rows, ParseInt(decoded.payload.sub, Len(rows)))]

\* require_user: the user, or the 401 of an unauthenticated request
require_user(cookie, rows, t) ==
    LET current == get_current_user_from_cookie(cookie, rows, t) IN
    IF current.raised THEN [raised |-> TRUE, status |-> 500, user |-> None]
    ELSE IF current.user = None THEN [raised |-> FALSE, status |-> 401, user |-> None]
    ELSE [raised |-> FALSE, status |-> 200, user |-> current.user]

(***************************************************************************)
(* app/web/routes.py: the auth handlers.  Each is the record of what the   *)
(* request does: the session when the handler ends, the users table after  *)
(* its commits, the response, and whether an exception left the handler.   *)
(***************************************************************************)
Response(op, sid, status, location, flash) ==
    [op |-> op, sid |-> sid, status |-> status, location |-> location, flash |-> flash,
     set_cookie |-> None, delete_cookie |-> FALSE, body |-> None, mail |-> None]

\* require_csrf did not return: its HTTPException(status_code=400, detail=...)
\* becomes the response, its TypeError leaves the handler; nothing was changed yet
CsrfRejected(op, sid, sess, rows, detail) ==
    IF detail = "TypeError"
    THEN [session |-> sess, users |-> rows, raised |-> TRUE,
          resp |-> Response(op, sid, 500, "", "")]
    ELSE [session |-> sess, users |-> rows, raised |-> FALSE,
          resp |-> Response(op, sid, 400, "", detail)]

\* send_email_brevo raised RuntimeError: the handler is left by the exception
MailerRaised(op, sid, sess, rows, mail) ==
    [session |-> sess, users |-> rows, raised |-> TRUE,
     resp |-> [Response(op, sid, 500, "", "") EXCEPT !.mail = Some(mail)]]

MsgDuplicateEmail ==
    "The email address you are trying to register is already used for another account. Try registering with a different email address."
MsgBadLogin == "Email not found or incorrect password"

register_submit(sid, sess, rows, csrf_token, email, password, num, mail_ok, t) ==
    LET op == "register_submit"
        denied == require_csrf(sess, csrf_token)
        user == NewWebUser(rows, email, password, t)
        rows1 == Append(rows, user)
        sess1 == new_otp_ctx(sess, user.email, user.id, "register", OTP_EXP_MINUTES,
                             DefaultCodeLen, DefaultMaxAttempts, num, t)
        mail == [to |-> user.email, code |-> Get(sess1.otp_ctx).code]
    IN  IF denied # "" THEN CsrfRejected(op, sid, sess, rows, denied)
        ELSE IF FindByEmail(rows, email) # None
        THEN [session |-> sess, users |-> rows, raised |-> FALSE,
              resp |-> Response(op, sid, 303, "/register", MsgDuplicateEmail)]
        ELSE IF ~mail_ok THEN MailerRaised(op, sid, sess1, rows1, mail)
        ELSE [session |-> sess1, users |-> rows1, raised |-> FALSE,
              resp |-> [Response(op, sid, 303, "/verify",
                                 "OTP sent to " \o user.email \o ". Please verify.")
                          EXCEPT !.mail = Some(mail)]]

login_submit(sid, sess, rows, csrf_token, email, password, num, mail_ok, t) ==
    LET op == "login_submit"
        denied == require_csrf(sess, csrf_token)
        found == FindByEmail(rows, email)
        user == Get(found)
        sess1 == new_otp_ctx(sess, user.email, user.id, "login", OTP_EXP_MINUTES,
                             DefaultCodeLen, DefaultMaxAttempts, num, t)
        mail == [to |-> user.email, code |-> Get(sess1.otp_ctx).code]
        rows1 == [rows EXCEPT ![user.id].last_login_at = Some(t)]
        access == create_token(user.id, AccessTtl, "access", t)
    IN  IF denied # "" THEN CsrfRejected(op, sid, sess, rows, denied)
        ELSE IF found = None \/ user.password_hash = None
                \/ ~verify_password(password, user.password_hash)
        THEN [session |-> sess, users |-> rows, raised |-> FALSE,
              resp |-> Response(op, sid, 303, "/login", MsgBadLogin)]
        ELSE IF ~user.is_email_verified
        THEN IF ~mail_ok THEN MailerRaised(op, sid, sess1, rows, mail)
             ELSE [session |-> sess1, users |-> rows, raised |-> FALSE,
                   resp |-> [Response(op, sid, 303, "/verify",
                                      "Verify your email to continue. We sent a code to "
                                          \o user.email \o ".")
                               EXCEPT !.mail = Some(mail)]]
        ELSE [session |-> sess, users |-> rows1, raised |-> FALSE,
              resp |-> [Response(op, sid, 303, "/post-login", "Login successful. Welcome back!")
                          EXCEPT !.set_cookie = Some(access)]]

\* a logout that clears the access cookie only
LogoutKeepsOtp(sid, sess, rows, csrf_token) ==
    LET op == "logout"
        denied == require_csrf(sess, csrf_token)
    IN  IF denied # "" THEN CsrfRejected(op, sid, sess, rows, denied)
        ELSE [session |-> sess, users |-> rows, raised |-> FALSE,
              resp |-> [Response(op, sid, 303, "/", "") EXCEPT !.delete_cookie = TRUE]]

logout(sid, sess, rows, csrf_token) ==
    LET op == "logout"
        denied == require_csrf(sess, csrf_token)
    IN  IF denied # "" THEN CsrfRejected(op, sid, sess, rows, denied)
        ELSE [session |-> [sess EXCEPT !.otp_ctx = None], users |-> rows, raised |-> FALSE,
              resp |-> [Response(op, sid, 303, "/", "") EXCEPT !.delete_cookie = TRUE]]

verify_submit(sid, sess, rows, csrf_token, code, t) ==
    LET op == "verify_submit"
        denied == require_csrf(sess, csrf_token)
        checked == check_code_and_update(sess, code, t)
        user_id == checked.session.post_otp_user_id
        sess1 == [checked.session EXCEPT !.post_otp_user_id = None]
        found == GetUser(rows, Get(user_id))
        user == Get(found)
        rows1 == [rows EXCEPT ![user.id].is_email_verified = TRUE,
                              ![user.id].email_verified_at = Some(t)]
        access == create_token(user.id, AccessTtl, "access", t)
    IN  IF denied # "" THEN CsrfRejected(op, sid, sess, rows, denied)
        ELSE IF ~checked.ok
        THEN [session |-> checked.session, users |-> rows, raised |-> FALSE,
              resp |-> Response(op, sid, 303, "/verify", checked.msg)]
        ELSE IF user_id = None \/ Get(user_id) = 0
        THEN [session |-> sess1, users |-> rows, raised |-> FALSE,
              resp |-> Response(op, sid, 303, "/login", "Session lost user id. Please log in again.")]
        ELSE IF found = None
        THEN [session |-> sess1, users |-> rows, raised |-> FALSE,
              resp |-> Response(op, sid, 303, "/login", "User not found. Please log in again.")]
        ELSE [session |-> sess1, users |-> rows1, raised |-> FALSE,
              resp |-> [Response(op, sid, 303, "/post-login", "OTP verified. Welcome!")
                          EXCEPT !.set_cookie = Some(access)]]

verify_resend(sid, sess, rows, csrf_token, num, mail_ok, t) ==
    LET op == "verify_resend"
        denied == require_csrf(sess, csrf_token)
        ctx == get_otp_ctx(sess)
        sess1 == new_otp_ctx(sess, Get(ctx).email, Get(ctx).user_id, Get(ctx).purpose,
                             OTP_EXP_MINUTES, DefaultCodeLen, DefaultMaxAttempts, num, t)
        mail == [to |-> Get(ctx).email, code |-> Get(sess1.otp_ctx).code]
    IN  IF denied # "" THEN CsrfRejected(op, sid, sess, rows, denied)
        ELSE IF ctx = None
        THEN [session |-> sess, users |-> rows, raised |-> FALSE,
              resp |-> Response(op, sid, 303, "/login", "No OTP session. Please log in again.")]
        ELSE IF ~mail_ok THEN MailerRaised(op, sid, sess1, rows, mail)
        ELSE [session |-> sess1, users |-> rows, raised |-> FALSE,
              resp |-> [Response(op, sid, 303, "/verify", "We sent a new code.")
                          EXCEPT !.mail = Some(mail)]]

\* login_page, register_page: a signed-in user is redirected, anyone else gets
\* the form with the session's CSRF token
form_page(op, sid, sess, rows, cookie, token, t) ==
    LET current == get_current_user_from_cookie(cookie, rows, t) IN
    IF current.raised
    THEN [session |-> sess, users |-> rows, raised |-> TRUE,
          resp |-> Response(op, sid, 500, "", "")]
    ELSE IF current.user # None
    THEN [session |-> sess, users |-> rows, raised |-> FALSE,
          resp |-> Response(op, sid, 303, "/after-login", "")]
    ELSE [session |-> get_csrf_token(sess, token), users |-> rows, raised |-> FALSE,
          resp |-> Response(op, sid, 200, "", "")]

\* verify_page: always renders the form with the session's CSRF token
verify_page(sid, sess, rows, token) ==
    [session |-> get_csrf_token(sess, token), users |-> rows, raised |-> FALSE,
     resp |-> Response("verify_page", sid, 200, "", "")]

(***************************************************************************)
(* Agencies: app/web/routes.py agency_new_submit and app/web/routes_admin.py *)
(* admin_agency_update.  Text fields are sequences of characters.  The     *)
(* branch and city rows agency_new_submit adds live in tables of their own *)
(* that no handler of this model reads.                                    *)
(***************************************************************************)
\* DEFAULT_ADMIN_EMAILS, which settings.ADMIN_EMAILS replaces when it is set
ADMIN_EMAILS == {"umrahadvisor@gmail.com", "umrahadvisor1@gmail.com"}

is_admin_user(user) == user # None /\ Get(user).email \in ADMIN_EMAILS

GetAgency(rows, registration_id) ==
    IF registration_id \in 1..Len(rows) THEN Some(rows[registration_id]) ELSE None

\* a handler's outcome that leaves the agencies table as it was
KeepAgencies(h, rows) ==
    [session |-> h.session, users |-> h.users, agencies |-> rows, raised |-> h.raised,
     resp |-> h.resp]

\* agency_new_submit without a logo file
agency_new_submit(sid, sess, rows, agency_rows, cookie, csrf_token, agencies_name, city, t) ==
    LET op == "agency_new_submit"
        denied == require_csrf(sess, csrf_token)
        current == require_user(cookie, rows, t)
        agency == [registration_id |-> Len(agency_rows) + 1, user_id |-> Get(current.user).id,
                   agencies_name |-> strip(agencies_name), city |-> strip(city),
                   viewed_by_admin |-> FALSE, updated_at |-> t]
        same == [session |-> sess, users |-> rows, agencies |-> agency_rows, raised |-> FALSE,
                 resp |-> Response(op, sid, 0, "", "")]
    IN  IF denied # "" THEN KeepAgencies(CsrfRejected(op, sid, sess, rows, denied), agency_rows)
        ELSE IF current.raised
        THEN [same EXCEPT !.raised = TRUE, !.resp = Response(op, sid, 500, "", "")]
        ELSE IF current.user = None
        THEN [same EXCEPT !.resp = Response(op, sid, 401, "", "Not authenticated")]
        ELSE IF strip(agencies_name) = <<>> \/ strip(city) = <<>>
        THEN [same EXCEPT !.resp = Response(op, sid, 303, "/agency/new",
                                   "Agency name, city, country, and email are required.")]
        ELSE [same EXCEPT !.agencies = Append(agency_rows, agency),
                          !.resp = Response(op, sid, 303,
                                            "/agency/" \o ToString(agency.registration_id)
                                                \o "/dashboard",
                                            "Agency and branch created!")]

\* admin_agency_update; form is what request.form() returns
admin_agency_update(sid, sess, rows, agency_rows, cookie, registration_id, form, t) ==
    LET op == "admin_agency_update"
        current == get_current_user_from_cookie(cookie, rows, t)
        found == GetAgency(agency_rows, registration_id)
        agency == Get(found)
        updated == [agency EXCEPT
                       !.agencies_name = IF form.agencies_name # <<>> THEN form.agencies_name ELSE @,
                       !.city = IF form.city # <<>> THEN form.city ELSE @,
                       !.updated_at = t,
                       !.viewed_by_admin = FALSE]
        same == [session |-> sess, users |-> rows, agencies |-> agency_rows, raised |-> FALSE,
                 resp |-> Response(op, sid, 0, "", "")]
    IN  IF current.raised
        THEN [same EXCEPT !.raised = TRUE, !.resp = Response(op, sid, 500, "", "")]
        ELSE IF current.user = None
        THEN [same EXCEPT !.resp = Response(op, sid, 303, "/login", "")]
        ELSE IF ~is_admin_user(current.user)
        THEN [same EXCEPT !.resp = Response(op, sid, 303, "/", "")]
        ELSE IF found = None
        THEN [same EXCEPT !.resp = Response(op, sid, 404, "", "Agency not found")]
        ELSE [same EXCEPT !.agencies = [agency_rows EXCEPT ![registration_id] = updated],
                          !.resp = Response(op, sid, 303, "/admin/agencies", "")]

(***************************************************************************)
(* app/api/v1/auth.py                                                      *)
(***************************************************************************)
TokenPair(user_id, t) ==
    Some([access_token |-> create_token(user_id, AccessTtl, "access", t),
          refresh_token |-> create_token(user_id, RefreshTtl, "refresh", t)])

signup(rows, email, password, t) ==
    LET user == NewApiUser(rows, email, password) IN
    IF FindByEmail(rows, email) # None
    THEN [users |-> rows, resp |-> Response("signup", 0, 409, "", "Email already exists")]
    ELSE [users |-> Append(rows, user),
          resp |-> [Response("signup", 0, 201, "", "") EXCEPT !.body = TokenPair(user.id, t)]]

login(rows, email, password, t) ==
    LET found == FindByEmail(rows, email)
        user == Get(found)
    IN  IF found = None \/ ~verify_password(password, user.password_hash) \/ ~user.is_active
        THEN [users |-> rows, resp |-> Response("login", 0, 401, "", "Invalid credentials")]
        ELSE [users |-> [rows EXCEPT ![user.id].last_login_at = Some(t)],
              resp |-> [Response("login", 0, 200, "", "") EXCEPT !.body = TokenPair(user.id, t)]]

\* get_current_user, the dependency of the protected API routes: the user, or
\* the detail of the 401 it raises
get_current_user(token, rows, t) ==
    LET decoded == decode_token(token, None, t)
        found == GetUser(rows, ParseInt(decoded.payload.sub, Len(rows)))
    IN  IF decoded.error # ""
        THEN [status |-> 401, detail |-> "Invalid or expired token", user |-> None]
        ELSE IF decoded.payload.type # "access"
        THEN [status |-> 401, detail |-> "Invalid token type", user |-> None]
        ELSE IF found = None \/ ~Get(found).is_active
        THEN [status |-> 401, detail |-> "User not found or inactive", user |-> None]
        ELSE [status |-> 200, detail |-> "", user |-> found]

\* POST /api/v1/refresh: a new token pair, or the detail of the 401
refresh_token(token, t) ==
    LET decoded == decode_token(token, None, t) IN
    IF decoded.error # ""
    THEN [status |-> 401, detail |-> "Invalid or expired token", body |-> None]
    ELSE IF decoded.payload.type # "refresh"
    THEN [status |-> 401, detail |-> "Invalid token type", body |-> None]
    ELSE [status |-> 200, detail |-> "",
          body |-> TokenPair(ParseInt(decoded.payload.sub, MaxUserId), t)]

(***************************************************************************)
(* app/api/v1/users.py                                                     *)
(***************************************************************************)
create_user(rows, email) ==
    IF FindByEmail(rows, email) # None
    THEN [users |-> rows, resp |-> Response("create_user", 0, 409, "", "Email already exists")]
    ELSE [users |-> Append(rows, NewPlainUser(rows, email)),
          resp |-> Response("create_user", 0, 201, "", "")]

(***************************************************************************)
(* Initial state: an empty users table, browsers without cookies, the     *)
(* clock at 0.                                                             *)
(***************************************************************************)
NoResp == Response("", 0, 0, "", "")
\* a call of the OTP service: the function, the code or the minutes passed, the time, the
\* context in the session before the call, and what the call returned
NoRet == [fn |-> "", arg |-> <<>>, minutes |-> 0, at |-> 0, pre |-> None, ok |-> FALSE,
          msg |-> "", ctx |-> None]
\* of the context created last: its arguments, the code it replaced, and the
\* wrong and the accepted submissions made to it since
NoHist == [max_attempts |-> 0, code |-> <<>>, prev_code |-> None,
           wrongs |-> 0, accepts |-> 0]

Init ==
    /\ now = 0
    /\ users = <<>>
    /\ agencies = <<>>
    /\ sessions = [s \in Sids |-> EmptySession]
    /\ cookies = [s \in Sids |-> None]
    /\ resp = NoResp
    /\ ret = NoRet
    /\ hist = NoHist
    /\ inflight = EmptyBag
    /\ tables = EmptyTables

(***************************************************************************)
(* The OTP service driven directly on one request.session: every public   *)
(* function of otp_session.py is called with arguments from small sets.   *)
(***************************************************************************)
OtpSid == CHOOSE s \in Sids : \A r \in Sids : s <= r

OtpEmail == "a@x.com"
OtpUserIds == {1}
OtpPurposes == {"login"}
OtpNums == 0..MaxNum

\* what a client can type into the code field
Submittable ==
    LET codes == {generate_numeric_otp(DefaultCodeLen, n) : n \in OtpNums}
    IN  codes
        \cup {<<" ">> \o generate_numeric_otp(DefaultCodeLen, MaxNum) \o <<" ">>}
        \cup {DecimalDigits(MaxNum)}
        \cup {<<>>, <<" ">>}

\* a submission is wrong for a context when, blanks at its ends apart, it is not the context's code
IsWrong(code, ctx) == strip(code) # ctx.code

CallNewOtpCtx(user_id, purpose, minutes, max_attempts, num) ==
    /\ sessions' = [sessions EXCEPT ![OtpSid] =
           new_otp_ctx(sessions[OtpSid], OtpEmail, user_id, purpose, minutes,
                       DefaultCodeLen, max_attempts, num, now)]
    /\ ret' = [fn |-> "new_otp_ctx", arg |-> <<>>, minutes |-> minutes, at |-> now,
               pre |-> sessions[OtpSid].otp_ctx, ok |-> TRUE, msg |-> "",
               ctx |-> sessions'[OtpSid].otp_ctx]
    /\ hist' = [max_attempts |-> max_attempts,
                code |-> ZeroPad(DecimalDigits(num), DefaultCodeLen),
                prev_code |-> IF sessions[OtpSid].otp_ctx = None THEN None
                              ELSE Some(Get(sessions[OtpSid].otp_ctx).code),
                wrongs |-> 0, accepts |-> 0]
    /\ UNCHANGED <<now, users, cookies, resp, agencies, inflight, tables>>

CallGetOtpCtx ==
    /\ ret' = [fn |-> "get_otp_ctx", arg |-> <<>>, minutes |-> 0, at |-> now,
               pre |-> sessions[OtpSid].otp_ctx, ok |-> TRUE, msg |-> "",
               ctx |-> get_otp_ctx(sessions[OtpSid])]
    /\ UNCHANGED <<now, users, sessions, cookies, resp, hist, agencies, inflight, tables>>

CallCheckCode(code) ==
    LET r == check_code_and_update(sessions[OtpSid], code, now)
        ctx == sessions[OtpSid].otp_ctx
        counted == /\ ctx # None
                   /\ ~(now > Get(ctx).expires_at.iso)
                   /\ IsWrong(code, Get(ctx))
    IN  /\ sessions' = [sessions EXCEPT ![OtpSid] = r.session]
        /\ ret' = [fn |-> "check_code_and_update", arg |-> code, minutes |-> 0, at |-> now,
                   pre |-> sessions[OtpSid].otp_ctx, ok |-> r.ok,
                   msg |-> r.msg, ctx |-> None]
        /\ hist' = [hist EXCEPT !.wrongs = IF counted THEN @ + 1 ELSE @,
                                !.accepts = IF r.ok THEN @ + 1 ELSE @]
        /\ UNCHANGED <<now, users, cookies, resp, agencies, inflight, tables>>

OtpTick ==
    /\ now < OtpMaxTime
    /\ now' = now + 1
    /\ UNCHANGED <<users, sessions, cookies, resp, ret, hist, agencies, inflight, tables>>

OtpNext ==
    \/ \E user_id \in OtpUserIds, purpose \in OtpPurposes, minutes \in 1..MaxMinutes,
          max_attempts \in 0..MaxAttempts, num \in OtpNums :
          CallNewOtpCtx(user_id, purpose, minutes, max_attempts, num)
    \/ CallGetOtpCtx
    \/ \E code \in Submittable : CallCheckCode(code)
    \/ OtpTick

SpecOtp == Init /\ [][OtpNext]_vars

(***************************************************************************)
(* The application: browsers send requests to the web handlers, API        *)
(* clients to the API handlers, the clock advances.                        *)
(***************************************************************************)
Emails == {"a@x.com"}
SignupPasswords == {"pw1"}
LoginPasswords == {"pw1", "pw2"}
CsrfTokens == {"csrf-1"}
WebNums == 0..WebMaxNum

\* what a form can carry as csrf_token: a made-up value, or the session's token
CsrfFields(s) ==
    {"forged"} \cup (IF sessions[s].csrf_token = None THEN {} ELSE {Get(sessions[s].csrf_token)})

\* what a client can type into the code field of /verify
WebCodes ==
    {generate_numeric_otp(DefaultCodeLen, n) : n \in WebNums}
        \cup {DecimalDigits(WebMaxNum), <<>>}

\* A request of browser s handled as h describes.  The session travels in a
\* signed cookie: SessionMiddleware writes request.session back when the
\* response starts, so a handler left by an exception writes nothing back;
\* what it committed to the database stays.
SendResponse(s, handled) ==
    \E h \in {handled} :
        /\ sessions' = [sessions EXCEPT ![s] = IF h.raised THEN @ ELSE h.session]
        /\ users' = h.users
        /\ cookies' = [cookies EXCEPT ![s] =
                          IF h.raised THEN @
                          ELSE IF h.resp.set_cookie # None THEN h.resp.set_cookie
                          ELSE IF h.resp.delete_cookie THEN None
                          ELSE @]
        /\ resp' = h.resp

\* a request handled from arrival to response with no other request in between
Handle(s, handled) ==
    /\ SendResponse(s, handled)
    /\ UNCHANGED <<now, ret, hist, agencies, inflight, tables>>

LoginPage(s, token) ==
    Handle(s, form_page("login_page", s, sessions[s], users, cookies[s], token, now))

RegisterPage(s, token) ==
    Handle(s, form_page("register_page", s, sessions[s], users, cookies[s], token, now))

VerifyPage(s, token) ==
    Handle(s, verify_page(s, sessions[s], users, token))

RegisterSubmit(s, csrf_token, email, password, num, mail_ok) ==
    Handle(s, register_submit(s, sessions[s], users, csrf_token, email, password, num,
                              mail_ok, now))

LoginSubmit(s, csrf_token, email, password, num, mail_ok) ==
    Handle(s, login_submit(s, sessions[s], users, csrf_token, email, password, num,
                           mail_ok, now))

Logout(s, csrf_token) ==
    Handle(s, logout(s, sessions[s], users, csrf_token))

VerifySubmit(s, csrf_token, code) ==
    Handle(s, verify_submit(s, sessions[s], users, csrf_token, code, now))

VerifyResend(s, csrf_token, num, mail_ok) ==
    Handle(s, verify_resend(s, sessions[s], users, csrf_token, num, mail_ok, now))

\* the API handlers use no session and set no cookie
ApiSignup(email, password) ==
    LET h == signup(users, email, password, now) IN
    /\ users' = h.users
    /\ resp' = h.resp
    /\ UNCHANGED <<now, sessions, cookies, ret, hist, agencies, inflight, tables>>

ApiLogin(email, password) ==
    LET h == login(users, email, password, now) IN
    /\ users' = h.users
    /\ resp' = h.resp
    /\ UNCHANGED <<now, sessions, cookies, ret, hist, agencies, inflight, tables>>

Tick ==
    /\ now < MaxTime
    /\ now' = now + 1
    /\ UNCHANGED <<users, sessions, cookies, resp, ret, hist, agencies, inflight, tables>>

Next ==
    \/ \E s \in Sids, token \in CsrfTokens : LoginPage(s, token)
    \/ \E s \in Sids, token \in CsrfTokens : RegisterPage(s, token)
    \/ \E s \in Sids, token \in CsrfTokens : VerifyPage(s, token)
    \/ \E s \in Sids, email \in Emails, password \in SignupPasswords, num \in WebNums,
          mail_ok \in BOOLEAN :
          \E csrf_token \in CsrfFields(s) :
             RegisterSubmit(s, csrf_token, email, password, num, mail_ok)
    \/ \E s \in Sids, email \in Emails, password \in LoginPasswords, num \in WebNums,
          mail_ok \in BOOLEAN :
          \E csrf_token \in CsrfFields(s) :
             LoginSubmit(s, csrf_token, email, password, num, mail_ok)
    \/ \E s \in Sids : \E csrf_token \in CsrfFields(s) : Logout(s, csrf_token)
    \/ \E s \in Sids, code \in WebCodes :
          \E csrf_token \in CsrfFields(s) : VerifySubmit(s, csrf_token, code)
    \/ \E s \in Sids, num \in WebNums, mail_ok \in BOOLEAN :
          \E csrf_token \in CsrfFields(s) : VerifyResend(s, csrf_token, num, mail_ok)
    \/ \E email \in Emails, password \in SignupPasswords : ApiSignup(email, password)
    \/ \E email \in Emails, password \in LoginPasswords : ApiLogin(email, password)
    \/ Tick

Spec == Init /\ [][Next]_vars

(***************************************************************************)
(* The token functions driven directly: clients present tokens to          *)
(* decode_token, to the cookie lookup of the web interface and to the API  *)
(* dependencies, while identities are created and deactivated.             *)
(***************************************************************************)
\* when the presented tokens were issued: long enough ago to be expired now,
\* so as to expire at time 0 exactly, or at time 0
IssueTimes == {0 - AccessTtl - 1, 0 - AccessTtl, 0}
TokenTypes == {"access", "refresh"}
Ttl(token_type) == IF token_type = "access" THEN AccessTtl ELSE RefreshTtl

\* tokens the server has issued
ServerTokens ==
    {create_token(uid, Ttl(ty), ty, iat) : uid \in 1..MaxUserId, ty \in TokenTypes, iat \in IssueTimes}
\* a token signed with a key that is not the server's
ForgedToken == [create_token(1, AccessTtl, "access", 0) EXCEPT !.key = "attacker-key"]
\* a string that is no JWT
MalformedToken == [key |-> "not-a-jwt"]
\* a token signed with the server's key whose payload has no sub
NoSubToken == [type |-> "access", iat |-> 0, exp |-> AccessTtl, key |-> SECRET_KEY]

Presentable == ServerTokens \cup {ForgedToken, MalformedToken, NoSubToken}
PresentableCookies == {None} \cup {Some(token) : token \in Presentable}

TokenCall(fn, arg, expected, ok, msg, result) ==
    [fn |-> fn, arg |-> arg, minutes |-> 0, at |-> now, pre |-> expected, ok |-> ok,
     msg |-> msg, ctx |-> result]

CallDecodeToken(token, token_type) ==
    LET r == decode_token(token, token_type, now) IN
    /\ ret' = TokenCall("decode_token", token, token_type, r.error = "", r.error,
                        IF r.error = "" THEN Some(r.payload) ELSE None)
    /\ UNCHANGED <<now, users, sessions, cookies, resp, hist, agencies, inflight, tables>>

CallCookieUser(cookie) ==
    LET r == get_current_user_from_cookie(cookie, users, now) IN
    /\ ret' = TokenCall("get_current_user_from_cookie", cookie, None, ~r.raised, "", r.user)
    /\ UNCHANGED <<now, users, sessions, cookies, resp, hist, agencies, inflight, tables>>

CallRequireUser(cookie) ==
    LET r == require_user(cookie, users, now) IN
    /\ ret' = TokenCall("require_user", cookie, None, r.status = 200, ToString(r.status), r.user)
    /\ UNCHANGED <<now, users, sessions, cookies, resp, hist, agencies, inflight, tables>>

CallGetCurrentUser(token) ==
    LET r == get_current_user(token, users, now) IN
    /\ ret' = TokenCall("get_current_user", token, None, r.status = 200, r.detail, r.user)
    /\ UNCHANGED <<now, users, sessions, cookies, resp, hist, agencies, inflight, tables>>

CallRefreshToken(token) ==
    LET r == refresh_token(token, now) IN
    /\ ret' = TokenCall("refresh_token", token, None, r.status = 200, r.detail, r.body)
    /\ UNCHANGED <<now, users, sessions, cookies, resp, hist, agencies, inflight, tables>>

ApiCreateUser(email) ==
    LET h == create_user(users, email) IN
    /\ users' = h.users
    /\ resp' = h.resp
    /\ UNCHANGED <<now, sessions, cookies, ret, hist, agencies, inflight, tables>>

\* the operator of the database sets users.is_active to 0 for one identity
Deactivate(i) ==
    /\ i \in 1..Len(users)
    /\ users[i].is_active
    /\ users' = [users EXCEPT ![i].is_active = FALSE]
    /\ UNCHANGED <<now, sessions, cookies, resp, ret, hist, agencies, inflight, tables>>

TokensNext ==
    \/ \E email \in Emails, password \in SignupPasswords : ApiSignup(email, password)
    \/ \E email \in Emails : ApiCreateUser(email)
    \/ \E i \in 1..MaxUserId : Deactivate(i)
    \/ \E token \in Presentable, token_type \in {None} \cup {Some(ty) : ty \in TokenTypes} :
          CallDecodeToken(token, token_type)
    \/ \E cookie \in PresentableCookies : CallCookieUser(cookie)
    \/ \E cookie \in PresentableCookies : CallRequireUser(cookie)
    \/ \E token \in Presentable : CallGetCurrentUser(token)
    \/ \E token \in Presentable : CallRefreshToken(token)
    \/ Tick

SpecTokens == Init /\ [][TokensNext]_vars

(***************************************************************************)
(* Logins of one browser and of API clients against identities that are    *)
(* created with and without a password, verified, and deactivated.         *)
(***************************************************************************)
Browser == OtpSid
LoginEmails == Emails \cup {"nobody@x.com"}

LoginNext ==
    \/ \E token \in CsrfTokens : LoginPage(Browser, token)
    \/ \E email \in Emails, password \in SignupPasswords, num \in WebNums, mail_ok \in BOOLEAN :
          \E csrf_token \in CsrfFields(Browser) :
             RegisterSubmit(Browser, csrf_token, email, password, num, mail_ok)
    \/ \E code \in WebCodes :
          \E csrf_token \in CsrfFields(Browser) : VerifySubmit(Browser, csrf_token, code)
    \/ \E email \in LoginEmails, password \in LoginPasswords, num \in WebNums,
          mail_ok \in BOOLEAN :
          \E csrf_token \in CsrfFields(Browser) :
             LoginSubmit(Browser, csrf_token, email, password, num, mail_ok)
    \/ \E email \in Emails, password \in SignupPasswords : ApiSignup(email, password)
    \/ \E email \in Emails : ApiCreateUser(email)
    \/ \E email \in LoginEmails, password \in LoginPasswords : ApiLogin(email, password)
    \/ \E i \in 1..MaxUserId : Deactivate(i)
    \/ Tick

SpecLogin == Init /\ [][LoginNext]_vars

(***************************************************************************)
(* One browser going through the auth pages and forms, with every kind of  *)
(* csrf_token field.                                                        *)
(***************************************************************************)
\* what the csrf_token field of a form can hold: nothing, a made-up value, a
\* value with a non-ASCII character, or a token the server has generated
FreshCsrfTokens == {"csrf-1", "csrf-2"}
AnyCsrfFields == {"", "forged"} \cup NonAscii \cup FreshCsrfTokens

SessionNext ==
    \/ \E token \in FreshCsrfTokens : LoginPage(Browser, token)
    \/ \E token \in FreshCsrfTokens : VerifyPage(Browser, token)
    \/ \E csrf_token \in AnyCsrfFields, email \in Emails, password \in SignupPasswords,
          num \in WebNums, mail_ok \in BOOLEAN :
          RegisterSubmit(Browser, csrf_token, email, password, num, mail_ok)
    \/ \E csrf_token \in AnyCsrfFields, email \in Emails, password \in LoginPasswords,
          num \in WebNums, mail_ok \in BOOLEAN :
          LoginSubmit(Browser, csrf_token, email, password, num, mail_ok)
    \/ \E csrf_token \in AnyCsrfFields : Logout(Browser, csrf_token)
    \/ \E csrf_token \in AnyCsrfFields, code \in WebCodes :
          VerifySubmit(Browser, csrf_token, code)
    \/ \E csrf_token \in AnyCsrfFields, num \in WebNums, mail_ok \in BOOLEAN :
          VerifyResend(Browser, csrf_token, num, mail_ok)
    \/ Tick

SpecSession == Init /\ [][SessionNext]_vars

(***************************************************************************)
(* An administrator's browser: sign-up and verification, creating an       *)
(* agency, and the administrator's edit of an agency.                      *)
(***************************************************************************)
\* like Handle, for the handlers that write to the agencies table as well
HandleAgency(s, handled) ==
    \E h \in {handled} :
        /\ sessions' = [sessions EXCEPT ![s] = IF h.raised THEN @ ELSE h.session]
        /\ users' = h.users
        /\ agencies' = h.agencies
        /\ cookies' = [cookies EXCEPT ![s] =
                          IF h.raised THEN @
                          ELSE IF h.resp.set_cookie # None THEN h.resp.set_cookie
                          ELSE IF h.resp.delete_cookie THEN None
                          ELSE @]
        /\ resp' = h.resp
        /\ UNCHANGED <<now, ret, hist, inflight, tables>>

AgencyNewSubmit(s, csrf_token, agencies_name, city) ==
    HandleAgency(s, agency_new_submit(s, sessions[s], users, agencies, cookies[s], csrf_token,
                                      agencies_name, city, now))

AdminAgencyUpdate(s, registration_id, form) ==
    HandleAgency(s, admin_agency_update(s, sessions[s], users, agencies, cookies[s],
                                        registration_id, form, now))

AdminSpecEmails == {"umrahadvisor@gmail.com", "a@x.com"}
AgencyNames == {<<"S">>, <<" ", "M", " ">>, <<" ">>}
AgencyCities == {<<"K">>}
MaxAgencies == 1
\* the fields of the administrator's edit form; csrf_token is what the page put there, or not
AdminForms ==
    [csrf_token : {"", "forged"} \cup FreshCsrfTokens, agencies_name : {<<>>, <<"N">>},
     city : {<<>>, <<"J">>}]

AdminNext ==
    \/ \E token \in FreshCsrfTokens : LoginPage(Browser, token)
    \/ \E csrf_token \in AnyCsrfFields, email \in AdminSpecEmails, password \in SignupPasswords,
          num \in WebNums :
          RegisterSubmit(Browser, csrf_token, email, password, num, TRUE)
    \/ \E csrf_token \in AnyCsrfFields, code \in WebCodes :
          VerifySubmit(Browser, csrf_token, code)
    \/ \E csrf_token \in AnyCsrfFields : Logout(Browser, csrf_token)
    \/ \E csrf_token \in AnyCsrfFields, agencies_name \in AgencyNames, city \in AgencyCities :
          /\ Len(agencies) < MaxAgencies
          /\ AgencyNewSubmit(Browser, csrf_token, agencies_name, city)
    \/ \E registration_id \in 1..MaxAgencies, form \in AdminForms :
          AdminAgencyUpdate(Browser, registration_id, form)
    \/ Tick

SpecAdmin == Init /\ [][AdminNext]_vars

(***************************************************************************)
(* Sign-ups in progress at the same time.  The handlers run in a thread    *)
(* pool: a request reads the users table for its uniqueness check, and its *)
(* INSERT and commit come later, after other requests may have committed.  *)
(* A request holds the session it was sent; it is written back when the    *)
(* response starts.                                                        *)
(***************************************************************************)
SignupEmails == {"a@x.com", "b@x.com"}
SignupKinds == {"register_submit", "signup", "create_user"}

\* the whole handler, run on the session the request was sent and on the table as it is now
SignupHandled(r, rows) ==
    IF r.kind = "register_submit"
    THEN register_submit(r.sid, Get(r.session), rows, r.csrf_token, r.email, r.password,
                         r.num, r.mail_ok, r.at)
    ELSE LET h == IF r.kind = "signup" THEN signup(rows, r.email, r.password, r.at)
                  ELSE create_user(rows, r.email)
         IN  [session |-> None, users |-> h.users, raised |-> FALSE, resp |-> h.resp]

\* the response of a request of kind r.kind; the call record keeps the request's
\* email, the row that had it when the response was decided, and whether the
\* request passed its CSRF check
Respond(r, h) ==
    /\ IF r.kind = "register_submit" THEN SendResponse(r.sid, h)
       ELSE users' = h.users /\ resp' = h.resp /\ UNCHANGED <<sessions, cookies>>
    /\ ret' = [fn |-> r.kind, arg |-> r.email, minutes |-> 0, at |-> now,
               pre |-> FindByEmail(users, r.email),
               ok |-> (r.kind = "register_submit"
                          => require_csrf(Get(r.session), r.csrf_token) = ""),
               msg |-> h.resp.flash, ctx |-> None]
    /\ UNCHANGED <<now, agencies, hist, tables>>

\* the request as the handler of its kind receives it: the API takes a JSON
\* body and has no session and no form
SignupRequest(kind, sess, csrf_token, email, password, num, mail_ok, t) ==
    IF kind = "register_submit"
    THEN [kind |-> kind, sid |-> Browser, session |-> Some(sess), csrf_token |-> csrf_token,
          email |-> email, password |-> password, num |-> num, mail_ok |-> mail_ok, at |-> t]
    ELSE [kind |-> kind, sid |-> 0, session |-> None, csrf_token |-> "",
          email |-> email, password |-> IF kind = "signup" THEN password ELSE "",
          num |-> 0, mail_ok |-> TRUE, at |-> t]

\* a request arrives and runs up to its INSERT: it ends at once when the CSRF
\* check or the uniqueness check turns it down
SignupBegin(kind, csrf_token, email, password, num, mail_ok) ==
    LET r == SignupRequest(kind, sessions[Browser], csrf_token, email, password, num,
                           mail_ok, now)
        h == SignupHandled(r, users)
    IN  /\ BagCardinality(inflight) < NumWorkers
        /\ IF h.users = users
           THEN Respond(r, h) /\ UNCHANGED inflight
           ELSE /\ inflight' = inflight (+) SetToBag({r})
                /\ UNCHANGED <<now, users, agencies, sessions, cookies, resp, ret, hist, tables>>

\* db.add, db.commit and the rest of the handler
SignupCommit(r) ==
    /\ BagIn(r, inflight)
    /\ IF EmailTaken(users, r.email)
       THEN Respond(r, [session |-> sessions[Browser], users |-> users, raised |-> TRUE,
                        resp |-> Response(r.kind, r.sid, 500, "", "IntegrityError")])
       ELSE Respond(r, SignupHandled(r, users))
    /\ inflight' = inflight (-) SetToBag({r})

SignupNext ==
    \/ \E token \in CsrfTokens : LoginPage(Browser, token)
    \/ \E kind \in SignupKinds, email \in SignupEmails, password \in SignupPasswords,
          num \in WebNums, mail_ok \in {TRUE}, csrf_token \in CsrfFields(Browser) :
          SignupBegin(kind, csrf_token, email, password, num, mail_ok)
    \/ \E r \in BagToSet(inflight) : SignupCommit(r)

SpecSignup == Init /\ [][SignupNext]_vars

(***************************************************************************)
(* One browser that registers, logs in, resends, logs out and verifies for *)
(* two identities in turn, each request handled from arrival to response,  *)
(* all within the lifetime of the codes.                                    *)
(***************************************************************************)
PendingNext ==
    \/ \E token \in CsrfTokens : LoginPage(Browser, token)
    \/ \E csrf_token \in CsrfFields(Browser), email \in SignupEmails,
          password \in SignupPasswords, num \in WebNums, mail_ok \in BOOLEAN :
          RegisterSubmit(Browser, csrf_token, email, password, num, mail_ok)
    \/ \E csrf_token \in CsrfFields(Browser), email \in SignupEmails,
          password \in SignupPasswords, num \in WebNums, mail_ok \in BOOLEAN :
          LoginSubmit(Browser, csrf_token, email, password, num, mail_ok)
    \/ \E csrf_token \in CsrfFields(Browser) : Logout(Browser, csrf_token)
    \/ \E csrf_token \in CsrfFields(Browser), code \in WebCodes :
          VerifySubmit(Browser, csrf_token, code)
    \/ \E csrf_token \in CsrfFields(Browser), num \in WebNums, mail_ok \in BOOLEAN :
          VerifyResend(Browser, csrf_token, num, mail_ok)

SpecPending == Init /\ [][PendingNext]_vars

(***************************************************************************)
(* Verify requests in progress at the same time on one session.  The       *)
(* session is the cookie the browser sent: a request works on the copy it  *)
(* was sent, and the copy it leaves replaces the browser's cookie when its *)
(* response arrives, whatever other responses arrived in between.          *)
(***************************************************************************)
\* the code of the contexts and a code that is not theirs
VerifyCodes == {generate_numeric_otp(DefaultCodeLen, n) : n \in {VerifyNum, VerifyNum + 1}}

\* the context as new_otp_ctx stored it
AsCreated(ctx, max_attempts) == [ctx EXCEPT !.attempts_left = max_attempts]

\* new_otp_ctx on the browser's session; the history starts again for the new context
VerifyNewCtx(minutes, max_attempts, num) ==
    /\ sessions' = [sessions EXCEPT ![OtpSid] =
           new_otp_ctx(sessions[OtpSid], OtpEmail, 1, "login", minutes,
                       DefaultCodeLen, max_attempts, num, now)]
    /\ hist' = [max_attempts |-> max_attempts,
                code |-> Get(sessions'[OtpSid].otp_ctx).code,
                prev_code |-> None, wrongs |-> 0, accepts |-> 0,
                ctx |-> sessions'[OtpSid].otp_ctx]
    /\ UNCHANGED <<now, users, cookies, resp, ret, agencies, inflight, tables>>

\* a verify request arrives with the browser's session cookie
VerifyBegin(code) ==
    /\ BagCardinality(inflight) < NumWorkers
    /\ hist.wrongs + hist.accepts < MaxCompared
    /\ inflight' = inflight (+) SetToBag({[kind |-> "verify", session |-> sessions[OtpSid],
                                          code |-> code]})
    /\ UNCHANGED <<now, users, agencies, sessions, cookies, resp, ret, hist, tables>>

\* check_code_and_update on the request's copy, then the response with the cookie
VerifyEnd(r) ==
    LET checked == check_code_and_update(r.session, r.code, now)
        ctx == r.session.otp_ctx
        compared == /\ ctx # None
                    /\ ~_is_expired(Get(ctx), now)
                    /\ ~Exhausted(Get(ctx).attempts_left)
                    /\ hist.ctx = Some(AsCreated(Get(ctx), hist.max_attempts))
    IN  /\ BagIn(r, inflight)
        /\ inflight' = inflight (-) SetToBag({r})
        /\ sessions' = [sessions EXCEPT ![OtpSid] = checked.session]
        /\ hist' = [hist EXCEPT !.wrongs = IF compared /\ ~checked.ok THEN @ + 1 ELSE @,
                                !.accepts = IF compared /\ checked.ok THEN @ + 1 ELSE @]
        /\ UNCHANGED <<now, users, cookies, resp, ret, agencies, tables>>

VerifyNext ==
    \/ \E minutes \in {MaxMinutes}, max_attempts \in 0..MaxAttempts, num \in {VerifyNum} :
          VerifyNewCtx(minutes, max_attempts, num)
    \/ \E code \in VerifyCodes : VerifyBegin(code)
    \/ \E r \in BagToSet(inflight) : VerifyEnd(r)

SpecVerify == Init /\ [][VerifyNext]_vars

(***************************************************************************)
(* Claims on the OTP service, checked under SpecOtp.  ret describes the    *)
(* last call: ret.pre is the context before it, OtpCtx the context after   *)
(* it, ret.at the time it was made.                                        *)
(***************************************************************************)
OtpCtx == sessions[OtpSid].otp_ctx
HasCtx == OtpCtx # None
LastCheck == ret.fn = "check_code_and_update"
\* the last call found a context that had not passed its expiry instant
PreUnexpired == ret.pre # None /\ ret.at <= Get(ret.pre).expires_at.iso
\* the last call found a context, unexpired and with attempts left
PreUsable == PreUnexpired /\ Get(ret.pre).attempts_left > 0
Blank(code) == \A i \in 1..Len(code) : code[i] = " "

\* C1: with max_attempts = k >= 1 and the context unexpired, wrong submissions
\* leave the context in place until the k-th, which removes it with the
\* too-many-incorrect outcome; a submission without a context fails with the
\* no-OTP-session outcome and creates none.
C1_KWrongSubmissionsClearAtK ==
    /\ (HasCtx /\ hist.max_attempts >= 1) => hist.wrongs < hist.max_attempts
    /\ (LastCheck /\ ret.pre = None) =>
          /\ ret.msg = MsgNoSession
          /\ ~ret.ok
          /\ ~HasCtx
    /\ (LastCheck /\ PreUnexpired /\ hist.max_attempts >= 1 /\ IsWrong(ret.arg, Get(ret.pre))) =>
          IF hist.wrongs = hist.max_attempts
          THEN ~HasCtx /\ ret.msg = MsgTooManyIncorrect /\ ~ret.ok
          ELSE HasCtx /\ ~ret.ok

\* the submission after the k-th wrong one (k >= 2) was answered "no OTP session"
C1_Witness ==
    /\ LastCheck
    /\ ret.msg = MsgNoSession
    /\ hist.max_attempts >= 2
    /\ hist.wrongs = hist.max_attempts
    /\ hist.accepts = 0

\* C2: submitting the stored code on a live context succeeds and removes the
\* context, so that get_otp_ctx returns None; while there is no context every
\* submission fails; a context's code is accepted at most once.
C2_CodeAcceptedAtMostOnce ==
    /\ hist.accepts <= 1
    /\ (LastCheck /\ PreUsable /\ strip(ret.arg) = Get(ret.pre).code) =>
          ret.ok /\ ~HasCtx
    /\ (LastCheck /\ ret.ok) => ~HasCtx
    /\ (LastCheck /\ ret.pre = None) => ~ret.ok
    /\ (ret.fn = "get_otp_ctx" /\ hist.accepts >= 1) => ret.ctx = None

\* the code was accepted once, and the same code was then refused for want of a context
C2_Witness ==
    /\ LastCheck
    /\ ~ret.ok
    /\ strip(ret.arg) = hist.code
    /\ hist.accepts = 1
    /\ ret.msg = MsgNoSession

\* C3: the stored attempts_left lies in 0..max_attempts; a wrong submission on
\* a usable context lowers it by exactly one (the context is removed when it
\* reaches 0); no check and no read raises it or brings a context back.
C3_AttemptsLeftBounded ==
    /\ HasCtx => Get(OtpCtx).attempts_left \in 0..hist.max_attempts
    /\ (LastCheck /\ HasCtx) =>
          /\ ret.pre # None
          /\ Get(OtpCtx).attempts_left <= Get(ret.pre).attempts_left
    /\ (LastCheck /\ PreUsable /\ IsWrong(ret.arg, Get(ret.pre))) =>
          IF Get(ret.pre).attempts_left = 1
          THEN ~HasCtx
          ELSE HasCtx /\ Get(OtpCtx).attempts_left = Get(ret.pre).attempts_left - 1
    /\ ret.fn = "get_otp_ctx" => OtpCtx = ret.pre

\* a context created with at least two attempts has lost exactly one of them
C3_Witness ==
    /\ HasCtx
    /\ LastCheck
    /\ hist.wrongs = 1
    /\ hist.max_attempts >= 2
    /\ Get(OtpCtx).attempts_left = hist.max_attempts - 1

C5_NewContextReplaces ==
    /\ \A s \in Sids : Len(sessions[s].otp_ctx) <= 1
    /\ ret.fn = "new_otp_ctx" =>
          /\ HasCtx
          /\ Get(OtpCtx).attempts_left = hist.max_attempts
          /\ Get(OtpCtx).code = hist.code
          /\ Get(OtpCtx).created_at.iso = ret.at
          /\ Get(OtpCtx).expires_at.iso = ret.at + ret.minutes
          /\ sessions[OtpSid].post_otp_user_id = Some(Get(OtpCtx).user_id)
    /\ (LastCheck /\ ret.ok) => strip(ret.arg) = hist.code
    /\ (LastCheck /\ hist.prev_code # None /\ Some(strip(ret.arg)) = hist.prev_code
          /\ Get(hist.prev_code) # hist.code) => ~ret.ok

\* a context replaced another, and the replaced code was then refused as invalid
C5_Witness ==
    /\ HasCtx
    /\ LastCheck
    /\ ~ret.ok
    /\ hist.prev_code # None
    /\ strip(ret.arg) = Get(hist.prev_code)
    /\ Get(hist.prev_code) # hist.code
    /\ hist.wrongs >= 1

\* C7: an empty or whitespace-only submission is never accepted, and on a
\* usable context it costs one attempt.
C7_BlankNeverVerifies ==
    (LastCheck /\ Blank(ret.arg)) =>
        /\ ~ret.ok
        /\ PreUsable =>
              IF Get(ret.pre).attempts_left = 1
              THEN ~HasCtx
              ELSE HasCtx /\ Get(OtpCtx).attempts_left = Get(ret.pre).attempts_left - 1

\* a whitespace-only submission was refused and an attempt was taken
C7_Witness ==
    /\ HasCtx
    /\ LastCheck
    /\ ret.arg # <<>>
    /\ Blank(ret.arg)
    /\ ~ret.ok
    /\ hist.wrongs = 1
    /\ Get(OtpCtx).attempts_left = hist.max_attempts - 1

(***************************************************************************)
(* Claims on the auth flow, checked under Spec.                            *)
(***************************************************************************)
\* the access tokens a response hands out, in a cookie or in its body
IssuedAccess(r) ==
    (IF r.set_cookie = None THEN {} ELSE {Get(r.set_cookie)})
        \cup (IF r.body = None THEN {} ELSE {Get(r.body).access_token})

TokenUser(token) == GetUser(users, ParseInt(token.sub, Len(users)))

\* C6: a POST /verify/resend that passes the CSRF check replaces the session's
\* context by a new one with the same email, user_id and purpose, the newly
\* drawn code, attempts_left at the maximum and a new expiry; without a context
\* it creates none and sends no code.
C6_ResendReplacesContext ==
    [][\A s \in Sids, num \in WebNums, mail_ok \in BOOLEAN :
          \A csrf_token \in CsrfFields(s) :
             (VerifyResend(s, csrf_token, num, mail_ok)
                  /\ require_csrf(sessions[s], csrf_token) = "") =>
                 IF sessions[s].otp_ctx = None
                 THEN sessions'[s].otp_ctx = None /\ resp'.mail = None
                 ELSE /\ sessions'[s].otp_ctx # None
                      /\ Get(sessions'[s].otp_ctx).email = Get(sessions[s].otp_ctx).email
                      /\ Get(sessions'[s].otp_ctx).user_id = Get(sessions[s].otp_ctx).user_id
                      /\ Get(sessions'[s].otp_ctx).purpose = Get(sessions[s].otp_ctx).purpose
                      /\ Get(sessions'[s].otp_ctx).code = ZeroPad(DecimalDigits(num), DefaultCodeLen)
                      /\ Get(sessions'[s].otp_ctx).attempts_left = DefaultMaxAttempts
                      /\ Get(sessions'[s].otp_ctx).created_at.iso = now
                      /\ Get(sessions'[s].otp_ctx).expires_at.iso = now + OTP_EXP_MINUTES
      ]_vars

\* C8: a login, at any login entry point, hands an access token only to an
\* identity whose email is verified; the web login of an unverified identity
\* leaves an OTP context with purpose "login" and sets no cookie; the OTP
\* check hands a token to the identity it has just marked verified.
C8_NoTokenBeforeVerification ==
    /\ resp.op \in {"login_submit", "login", "verify_submit"} =>
          \A token \in IssuedAccess(resp) :
             /\ TokenUser(token) # None
             /\ Get(TokenUser(token)).is_email_verified
    /\ (resp.op = "login_submit" /\ resp.location = "/verify") =>
          /\ resp.set_cookie = None
          /\ sessions[resp.sid].otp_ctx # None
          /\ Get(sessions[resp.sid].otp_ctx).purpose = "login"

\* C9: a step that creates an identity creates it unverified, leaves in a
\* session an OTP context with purpose "register" bound to its id, and hands
\* out no token; an identity becomes verified only in a verify step that
\* accepted the code and sets its access cookie.
C9_SignupIssuesNoToken ==
    [][/\ Len(users') > Len(users) =>
            /\ ~users'[Len(users')].is_email_verified
            /\ IssuedAccess(resp') = {}
            /\ \E s \in Sids :
                  /\ sessions'[s].otp_ctx # None
                  /\ Get(sessions'[s].otp_ctx).purpose = "register"
                  /\ Get(sessions'[s].otp_ctx).user_id = users'[Len(users')].id
       /\ \A i \in 1..Len(users) :
            (~users[i].is_email_verified /\ users'[i].is_email_verified) =>
                /\ resp'.op = "verify_submit"
                /\ resp'.set_cookie # None
                /\ Get(resp'.set_cookie).sub = ToString(i)
      ]_vars

\* C10: is_email_verified goes from false to true only in a verify step that
\* accepted the code, and never goes back; once an identity is verified its
\* email_verified_at is not changed by any request.
C10_VerifiedStampedOnce ==
    [][\A i \in 1..Len(users) :
          /\ users[i].is_email_verified =>
                /\ users'[i].is_email_verified
                /\ users'[i].email_verified_at = users[i].email_verified_at
          /\ (~users[i].is_email_verified /\ users'[i].is_email_verified) =>
                /\ resp'.op = "verify_submit"
                /\ resp'.location = "/post-login"
                /\ users[i].email_verified_at = None
                /\ users'[i].email_verified_at = Some(now)
      ]_vars

(***************************************************************************)
(* Claims on the token functions, checked under SpecTokens.  ret describes *)
(* the last call: the token or cookie presented, the time, the outcome.    *)
(***************************************************************************)
\* what the payload of a token says, whoever signed it
Signed(token) == token.key = SECRET_KEY
Unexpired(token, t) == t <= token.exp
HasSub(token) == "sub" \in DOMAIN token
\* a token an access-protected operation may accept at time t
GoodAccess(token, t) ==
    Signed(token) /\ Unexpired(token, t) /\ HasSub(token) /\ token.type = "access"
CookieCalls == {"get_current_user_from_cookie", "require_user"}

\* C13: the cookie lookup, given a cookie whose token cannot be decoded (bad
\* signature, expired, malformed, type other than access, no sub), does not
\* raise and returns no user.
C13_UndecodableCookieGivesNone ==
    (ret.fn \in CookieCalls /\ ret.arg # None /\ ~GoodAccess(Get(ret.arg), ret.at)) =>
        /\ ret.ctx = None
        /\ IF ret.fn = "require_user" THEN ret.msg = "401" ELSE ret.ok

\* C14: the cookie lookup and the API dependency, given a valid access token,
\* return a user only when the identity named by sub exists and is active.
C14_NoInactiveCurrentUser ==
    (ret.fn \in CookieCalls \cup {"get_current_user"} /\ ret.ctx # None) =>
        /\ Get(ret.ctx).id \in 1..Len(users)
        /\ Get(ret.ctx).is_active

\* C15: a signed, unexpired token is accepted only where its type matches:
\* decode_token with an expected type rejects the other type, the cookie
\* lookup and get_current_user return no user for a refresh token, refresh
\* rejects an access token; an access token made by create_token for uid
\* decodes with expected type access to a payload with sub = str(uid).
C15_TokenTypeEnforced ==
    LET token == IF ret.fn \in CookieCalls THEN Get(ret.arg) ELSE ret.arg
        live == Signed(token) /\ Unexpired(token, ret.at) /\ HasSub(token)
    IN  /\ (ret.fn = "decode_token" /\ ret.pre # None /\ live) =>
              IF token.type = Get(ret.pre)
              THEN ret.ok /\ Get(ret.ctx).type = Get(ret.pre)
              ELSE ~ret.ok /\ ret.msg = "Wrong token type" /\ ret.ctx = None
        /\ (ret.fn \in CookieCalls /\ ret.arg # None /\ live /\ token.type # "access") =>
              ret.ctx = None
        /\ (ret.fn = "get_current_user" /\ live /\ token.type # "access") =>
              ~ret.ok /\ ret.ctx = None /\ ret.msg = "Invalid token type"
        /\ (ret.fn = "refresh_token" /\ live /\ token.type # "refresh") =>
              ~ret.ok /\ ret.ctx = None /\ ret.msg = "Invalid token type"
        /\ (ret.fn = "refresh_token" /\ ret.ok) =>
              /\ token.type = "refresh"
              /\ Get(ret.ctx).access_token = create_token(ParseInt(token.sub, MaxUserId), AccessTtl, "access", ret.at)
        /\ \A uid \in 1..MaxUserId, iat \in IssueTimes :
              (ret.fn = "decode_token" /\ ret.pre = Some("access")
                   /\ ret.arg = create_token(uid, AccessTtl, "access", iat)
                   /\ ret.at <= iat + AccessTtl) =>
                  ret.ok /\ Get(ret.ctx).sub = ToString(uid) /\ ParseInt(Get(ret.ctx).sub, MaxUserId) = uid

\* an access token that is signed and unexpired was presented to refresh and refused,
\* and (in another call) a refresh token to decode_token expecting access
C15_Witness ==
    /\ ret.fn = "refresh_token"
    /\ Signed(ret.arg) /\ HasSub(ret.arg) /\ Unexpired(ret.arg, ret.at)
    /\ ret.arg.type = "access"
    /\ ~ret.ok
    /\ ret.at > 0

(***************************************************************************)
(* Claims on login, checked under SpecLogin.                               *)
(***************************************************************************)
\* the causes for which a login has to fail: no identity with that email, no
\* password hash, a password that does not match, an inactive identity
MustFail(rows, email, password) ==
    LET found == FindByEmail(rows, email) IN
    \/ found = None
    \/ Get(found).password_hash = None
    \/ Get(found).password_hash # Some(hash_password(password))
    \/ ~Get(found).is_active

\* C11: a login that has to fail (unknown email, no password hash, wrong
\* password, inactive identity with the right password) sets no cookie, returns
\* no token and creates no OTP context, on the web and on the API.
C11_FailedLoginIssuesNothing ==
    [][/\ \A email \in LoginEmails, password \in LoginPasswords, num \in WebNums,
             mail_ok \in BOOLEAN :
             \A csrf_token \in CsrfFields(Browser) :
                (/\ LoginSubmit(Browser, csrf_token, email, password, num, mail_ok)
                 /\ require_csrf(sessions[Browser], csrf_token) = ""
                 /\ MustFail(users, email, password)) =>
                    /\ IssuedAccess(resp') = {}
                    /\ cookies'[Browser] = cookies[Browser]
                    /\ sessions'[Browser].otp_ctx = sessions[Browser].otp_ctx
       /\ \A email \in LoginEmails, password \in LoginPasswords :
             (ApiLogin(email, password) /\ MustFail(users, email, password)) =>
                 IssuedAccess(resp') = {} /\ resp'.status = 401
      ]_vars

\* C12: every login that has to fail has one and the same outcome, whatever the
\* cause: on the web the redirect to /login with the one message and an
\* unchanged session, on the API the one 401; nothing is written.
C12_FailedLoginsIndistinguishable ==
    [][/\ \A email \in LoginEmails, password \in LoginPasswords, num \in WebNums,
             mail_ok \in BOOLEAN :
             \A csrf_token \in CsrfFields(Browser) :
                (/\ LoginSubmit(Browser, csrf_token, email, password, num, mail_ok)
                 /\ require_csrf(sessions[Browser], csrf_token) = ""
                 /\ MustFail(users, email, password)) =>
                    /\ resp' = Response("login_submit", Browser, 303, "/login", MsgBadLogin)
                    /\ UNCHANGED <<sessions, cookies, users>>
       /\ \A email \in LoginEmails, password \in LoginPasswords :
             (ApiLogin(email, password) /\ MustFail(users, email, password)) =>
                 /\ resp' = Response("login", 0, 401, "", "Invalid credentials")
                 /\ UNCHANGED <<sessions, cookies, users>>
      ]_vars

(***************************************************************************)
(* Claims on the CSRF token and on logout, checked under SpecSession.      *)
(***************************************************************************)
\* a POST of the browser with csrf_token field f
Posts(f) ==
    \/ \E email \in Emails, password \in SignupPasswords, num \in WebNums, mail_ok \in BOOLEAN :
          RegisterSubmit(Browser, f, email, password, num, mail_ok)
    \/ \E email \in Emails, password \in LoginPasswords, num \in WebNums, mail_ok \in BOOLEAN :
          LoginSubmit(Browser, f, email, password, num, mail_ok)
    \/ Logout(Browser, f)
    \/ \E code \in WebCodes : VerifySubmit(Browser, f, code)
    \/ \E num \in WebNums, mail_ok \in BOOLEAN : VerifyResend(Browser, f, num, mail_ok)

\* C16: once a session holds a CSRF token, no request changes or removes it:
\* a page that calls get_csrf_token again keeps it, and so do login, logout,
\* register, verify, resend and a failed CSRF check.
C16_CsrfTokenStable ==
    [][\A s \in Sids :
          sessions[s].csrf_token # None =>
              sessions'[s].csrf_token = sessions[s].csrf_token]_vars

\* the browser has its second token draw stored and a logout went through
C16_Witness ==
    /\ sessions[Browser].csrf_token = Some("csrf-2")
    /\ resp.op = "logout"
    /\ resp.status = 303

\* C17: a POST passes the CSRF check exactly when the submitted token is not
\* empty, the session holds a token and the two are equal; every other POST is
\* answered 400, with the missing-token detail before the no-session-token
\* detail before the mismatch detail, and the session token stays as it was.
C17_RequireCsrfOutcome ==
    [][\A f \in AnyCsrfFields :
          Posts(f) =>
             LET stored == sessions[Browser].csrf_token IN
             /\ sessions'[Browser].csrf_token = stored
             /\ IF f = "" THEN resp'.status = 400 /\ resp'.flash = "Missing CSRF token"
                ELSE IF stored = None
                THEN resp'.status = 400 /\ resp'.flash = "CSRF token not in session"
                ELSE IF Get(stored) # f
                THEN resp'.status = 400 /\ resp'.flash = "Invalid CSRF token"
                ELSE resp'.status # 400
      ]_vars

\* C19: a logout that passes the CSRF check removes the access cookie and the
\* OTP context and writes nothing to the users table; a verify that follows it
\* accepts no code; the access token that was in the cookie is still accepted
\* by decode_token and by the cookie lookup while its exp has not passed.
C19_LogoutClearsCookieAndOtp ==
    [][/\ \A f \in AnyCsrfFields :
             (Logout(Browser, f) /\ require_csrf(sessions[Browser], f) = "") =>
                 /\ cookies'[Browser] = None
                 /\ resp'.delete_cookie
                 /\ sessions'[Browser].otp_ctx = None
                 /\ users' = users
                 /\ (cookies[Browser] # None /\ now' <= Get(cookies[Browser]).exp) =>
                       /\ decode_token(Get(cookies[Browser]), Some("access"), now').error = ""
                       /\ get_current_user_from_cookie(cookies[Browser], users', now').user
                              = GetUser(users', ParseInt(Get(cookies[Browser]).sub, Len(users')))
       /\ (resp.op = "logout" /\ resp.status = 303 /\ resp'.op = "verify_submit") =>
             /\ IssuedAccess(resp') = {}
             /\ users' = users
             /\ resp'.status \in {400, 500} \/ resp'.flash = MsgNoSession
      ]_vars

\* a logout went through in a session that had been sent a code and has not verified one
C19_Witness ==
    /\ resp.op = "logout"
    /\ resp.status = 303
    /\ sessions[Browser].post_otp_user_id # None
    /\ sessions[Browser].otp_ctx = None
    /\ cookies[Browser] = None
    /\ now > 0

(***************************************************************************)
(* Claims on the CSRF check of the state-changing handlers, checked under  *)
(* SpecAdmin.                                                               *)
(***************************************************************************)
\* a POST of the browser whose form carries f as csrf_token
AdminPosts(f) ==
    \/ \E email \in AdminSpecEmails, password \in SignupPasswords, num \in WebNums :
          RegisterSubmit(Browser, f, email, password, num, TRUE)
    \/ \E code \in WebCodes : VerifySubmit(Browser, f, code)
    \/ Logout(Browser, f)
    \/ \E agencies_name \in AgencyNames, city \in AgencyCities :
          AgencyNewSubmit(Browser, f, agencies_name, city)
    \/ \E registration_id \in 1..MaxAgencies, form \in AdminForms :
          form.csrf_token = f /\ AdminAgencyUpdate(Browser, registration_id, form)

\* C18: a POST whose csrf_token is missing or is not the session's token
\* changes no identity, no agency and nothing in the session or the cookie.
C18_CsrfBeforeMutation ==
    [][\A f \in AnyCsrfFields :
          (AdminPosts(f) /\ require_csrf(sessions[Browser], f) # "") =>
              UNCHANGED <<users, agencies, sessions, cookies>>]_vars

(***************************************************************************)
(* Claims on sign-ups, checked under SpecSignup.                           *)
(***************************************************************************)
UniqueEmails(rows) ==
    \A i, j \in 1..Len(rows) : rows[i].email = rows[j].email => i = j

DuplicateOutcome(kind, r) ==
    IF kind = "register_submit"
    THEN r.status = 303 /\ r.location = "/register" /\ r.flash = MsgDuplicateEmail
    ELSE r.status = 409 /\ r.flash = "Email already exists"

NothingChanged ==
    /\ users' = users
    /\ \A s \in Sids : sessions'[s].otp_ctx = sessions[s].otp_ctx

MailerFailed(r) == r.status = 500 /\ r.mail # None

\* C21: after a register, a login of an unverified identity or a resend whose
\* mail could not be sent, the identity the mail was for is in the users table
\* and the session holds the OTP context whose code the mail carried.
C21_MailerFailureKeepsContext ==
    MailerFailed(resp) =>
        /\ FindByEmail(users, Get(resp.mail).to) # None
        /\ sessions[Browser].otp_ctx # None
        /\ Get(sessions[Browser].otp_ctx).code = Get(resp.mail).code

\* C22: a register, login or resend request that went as far as sending its
\* mail is answered by the handler (a redirect or an error response of the
\* handler's making), never by the server's 500 for an exception that left the
\* handler.
C22_NoUnhandledException ==
    (resp.op \in {"register_submit", "login_submit", "verify_resend"} /\ resp.mail # None)
        => resp.status \in {303, 400}

(***************************************************************************)
(* Claims on the order of the OTP checks, checked under SpecOtp.           *)
(***************************************************************************)
MismatchMessages == {MsgInvalid(n) : n \in 0..(MaxAttempts + 1)} \cup {MsgTooManyIncorrect}

\* C23: check_code_and_update reports the first failure in the order no
\* context, expired, exhausted, mismatch (so a context that is expired and has
\* no attempt left reports expired); the messages of the four kinds differ
\* pairwise; a call that finds no context leaves the session as it was.
C23_FailureOrder ==
    [][(now' = now /\ ret'.fn = "check_code_and_update") =>
          LET pre == ret'.pre
              ctx == Get(pre)
          IN  /\ IF pre = None
                 THEN ~ret'.ok /\ ret'.msg = MsgNoSession /\ sessions' = sessions
                 ELSE IF ret'.at > ctx.expires_at.iso
                 THEN ~ret'.ok /\ ret'.msg = MsgExpired
                 ELSE IF ctx.attempts_left <= 0
                 THEN ~ret'.ok /\ ret'.msg = MsgTooMany
                 ELSE IF IsWrong(ret'.arg, ctx)
                 THEN ~ret'.ok /\ ret'.msg \in MismatchMessages
                 ELSE ret'.ok /\ ret'.msg = MsgVerified
              /\ Cardinality({MsgNoSession, MsgExpired, MsgTooMany}) = 3
              /\ {MsgNoSession, MsgExpired, MsgTooMany, MsgVerified} \cap MismatchMessages = {}
      ]_vars

\* a context created with no attempt was submitted to after its expiry
C23_Witness ==
    /\ LastCheck
    /\ ret.pre # None
    /\ ret.at > Get(ret.pre).expires_at.iso
    /\ Get(ret.pre).attempts_left <= 0
    /\ ret.msg = MsgExpired
    /\ ~HasCtx

(***************************************************************************)
(* Claims on interleaved verify requests, checked under SpecVerify.        *)
(***************************************************************************)
\* the comparisons made against the code of the context created last
Compared == hist.wrongs + hist.accepts

\* C24: whatever the interleaving of verify requests on one session, each
\* working on the copy of the session it was sent and writing it back with its
\* response, the attempts_left of the context in the session, and of every
\* copy a request in progress holds, is never negative.
C24_AttemptsLeftNeverNegative ==
    /\ HasCtx => Get(OtpCtx).attempts_left >= 0
    /\ \A r \in BagToSet(inflight) :
          r.session.otp_ctx # None => Get(r.session.otp_ctx).attempts_left >= 0

\* two requests compared a wrong code with one and the same copy of the
\* context: the session holds the context with one attempt taken off
C24_Witness ==
    /\ HasCtx
    /\ hist.max_attempts >= 2
    /\ hist.wrongs >= 2
    /\ Get(OtpCtx).attempts_left = hist.max_attempts - 1

\* C25: over the lifetime of a context created with max_attempts = k, at most
\* k submitted codes are compared with its code, also when verify requests
\* interleave or an earlier copy of the session is written back after a later
\* one.
C25_AtMostKComparisons ==
    hist.code # <<>> => Compared <= hist.max_attempts

(***************************************************************************)
(* Claims on the identity pending confirmation, checked under SpecPending. *)
(***************************************************************************)
\* the step is a verify_submit that accepted its code
VerifyAccepted ==
    /\ now' = now
    /\ resp'.op = "verify_submit"
    /\ resp'.location = "/post-login"

\* C26: a session that holds an OTP context holds that context's user_id as
\* post_otp_user_id; a verify that accepts its code finds a context whose code
\* is the submitted one, marks verified the identity of that context and no
\* other, sets the access cookie to a token of that identity, and leaves the
\* session without context and without post_otp_user_id.
C26_PendingIdentityIsContextIdentity ==
    [][/\ \A s \in Sids :
             sessions'[s].otp_ctx # None =>
                sessions'[s].post_otp_user_id = Some(Get(sessions'[s].otp_ctx).user_id)
       /\ VerifyAccepted =>
             LET pre == sessions[Browser].otp_ctx
                 uid == Get(pre).user_id
             IN  /\ pre # None
                 /\ uid \in 1..Len(users)
                 /\ users[uid].email = Get(pre).email
                 /\ users'[uid].is_email_verified
                 /\ \A i \in 1..Len(users) : i # uid => users'[i] = users[i]
                 /\ resp'.set_cookie # None
                 /\ Get(resp'.set_cookie).sub = ToString(uid)
                 /\ cookies'[Browser] = resp'.set_cookie
                 /\ sessions'[Browser].otp_ctx = None
                 /\ sessions'[Browser].post_otp_user_id = None
      ]_vars

\* the second identity was verified in a browser where the first one had
\* registered before and is still unverified
C26_Witness ==
    /\ resp.op = "verify_submit"
    /\ resp.location = "/post-login"
    /\ Len(users) = 2
    /\ ~users[1].is_email_verified
    /\ users[2].is_email_verified
    /\ cookies[Browser] # None
    /\ Get(cookies[Browser]).sub = "2"

(***************************************************************************)
(* app/web/routes.py: the active agency of a session and the handlers      *)
(* that read it.  An inquiry row is its inquiry_id, the registration_id of *)
(* its agency and viewed_at; the flashes a handler stores are left out.    *)
(***************************************************************************)
set_active_agency(sess, registration_id) == [sess EXCEPT !.active_agency_id = registration_id]

get_active_agency_id(sess) == sess.active_agency_id

\* db.query(Agency).filter(Agency.registration_id == id, Agency.user_id == user.id).first()
OwnedAgency(agency_rows, registration_id, user) ==
    LET found == GetAgency(agency_rows, registration_id) IN
    IF found # None /\ Get(found).user_id = user.id THEN found ELSE None

redirect_after_login(op, sid, sess, rows, agency_rows, user) ==
    LET mine == {i \in 1..Len(agency_rows) : agency_rows[i].user_id = user.id}
        first == CHOOSE i \in mine : TRUE
    IN  IF is_admin_user(Some(user))
        THEN [session |-> sess, users |-> rows, raised |-> FALSE,
              resp |-> Response(op, sid, 303, "/admin", "")]
        ELSE IF mine = {}
        THEN [session |-> set_active_agency(sess, None), users |-> rows, raised |-> FALSE,
              resp |-> Response(op, sid, 303, "/agency/new", "Create your first agency.")]
        ELSE IF Cardinality(mine) = 1
        THEN [session |-> set_active_agency(sess, Some(first)), users |-> rows, raised |-> FALSE,
              resp |-> Response(op, sid, 303, "/agency/" \o ToString(first) \o "/dashboard", "")]
        ELSE [session |-> set_active_agency(sess, None), users |-> rows, raised |-> FALSE,
              resp |-> Response(op, sid, 303, "/select-agency", "")]

\* require_user did not return a user: the 401 it raises, or the exception of the cookie lookup
NotSignedIn(op, sid, sess, rows, current) ==
    [session |-> sess, users |-> rows, raised |-> current.raised,
     resp |-> Response(op, sid, current.status, "",
                       IF current.raised THEN "" ELSE "Not authenticated")]

post_login_redirect(sid, sess, rows, agency_rows, cookie, t) ==
    LET op == "post_login_redirect"
        current == get_current_user_from_cookie(cookie, rows, t)
    IN  IF current.raised
        THEN [session |-> sess, users |-> rows, raised |-> TRUE,
              resp |-> Response(op, sid, 500, "", "")]
        ELSE IF current.user = None
        THEN [session |-> sess, users |-> rows, raised |-> FALSE,
              resp |-> Response(op, sid, 303, "/login", "")]
        ELSE redirect_after_login(op, sid, sess, rows, agency_rows, Get(current.user))

dashboard_agency(sid, sess, rows, agency_rows, cookie, registration_id, t) ==
    LET op == "dashboard_agency"
        current == require_user(cookie, rows, t)
        sess1 == set_active_agency(sess, Some(registration_id))
    IN  IF current.user = None THEN NotSignedIn(op, sid, sess, rows, current)
        ELSE IF OwnedAgency(agency_rows, registration_id, Get(current.user)) = None
        THEN [session |-> set_active_agency(sess1, None), users |-> rows, raised |-> FALSE,
              resp |-> Response(op, sid, 303, "/select-agency", "Agency not found or not yours")]
        ELSE [session |-> sess1, users |-> rows, raised |-> FALSE,
              resp |-> Response(op, sid, 200, "", "")]

select_agency_submit(sid, sess, rows, agency_rows, cookie, csrf_token, agency_id, t) ==
    LET op == "select_agency_submit"
        denied == require_csrf(sess, csrf_token)
        current == require_user(cookie, rows, t)
    IN  IF denied # "" THEN CsrfRejected(op, sid, sess, rows, denied)
        ELSE IF current.user = None THEN NotSignedIn(op, sid, sess, rows, current)
        ELSE IF OwnedAgency(agency_rows, agency_id, Get(current.user)) = None
        THEN [session |-> sess, users |-> rows, raised |-> FALSE,
              resp |-> Response(op, sid, 303, "/select-agency", "Agency not found or not yours.")]
        ELSE [session |-> set_active_agency(sess, Some(agency_id)), users |-> rows,
              raised |-> FALSE,
              resp |-> Response(op, sid, 303, "/agency/" \o ToString(agency_id) \o "/dashboard",
                                "Switched")]

\* a handler's outcome that leaves the inquiries table as it was
KeepInquiries(h, inquiry_rows) ==
    [session |-> h.session, users |-> h.users, raised |-> h.raised, resp |-> h.resp,
     inquiries |-> inquiry_rows]

\* inquiries_list; the body of the page is the set of the inquiry_id it shows
inquiries_list(sid, sess, rows, agency_rows, inquiry_rows, cookie, t) ==
    LET op == "inquiries_list"
        current == require_user(cookie, rows, t)
        user == Get(current.user)
        active_id == get_active_agency_id(sess)
        shown == {inquiry_rows[i].inquiry_id : i \in
                     {j \in 1..Len(inquiry_rows) :
                         inquiry_rows[j].registration_id = Get(active_id)}}
    IN  KeepInquiries(
          IF current.user = None THEN NotSignedIn(op, sid, sess, rows, current)
          ELSE IF active_id = None
          THEN redirect_after_login(op, sid, sess, rows, agency_rows, user)
          ELSE IF OwnedAgency(agency_rows, Get(active_id), user) = None
          THEN redirect_after_login(op, sid, set_active_agency(sess, None), rows, agency_rows,
                                    user)
          ELSE [session |-> sess, users |-> rows, raised |-> FALSE,
                resp |-> [Response(op, sid, 200, "", "") EXCEPT !.body = Some(shown)]],
          inquiry_rows)

inquiries_mark_all_seen(sid, sess, rows, agency_rows, inquiry_rows, cookie, csrf_token, t) ==
    LET op == "inquiries_mark_all_seen"
        denied == require_csrf(sess, csrf_token)
        current == require_user(cookie, rows, t)
        active_id == get_active_agency_id(sess)
        seen == [i \in 1..Len(inquiry_rows) |->
                    IF inquiry_rows[i].registration_id = Get(active_id)
                       /\ inquiry_rows[i].viewed_at = None
                    THEN [inquiry_rows[i] EXCEPT !.viewed_at = Some(t)]
                    ELSE inquiry_rows[i]]
    IN  IF denied # "" THEN KeepInquiries(CsrfRejected(op, sid, sess, rows, denied), inquiry_rows)
        ELSE IF current.user = None
        THEN KeepInquiries(NotSignedIn(op, sid, sess, rows, current), inquiry_rows)
        ELSE IF active_id = None
        THEN KeepInquiries(redirect_after_login(op, sid, sess, rows, agency_rows,
                                                Get(current.user)), inquiry_rows)
        ELSE [session |-> sess, users |-> rows, raised |-> FALSE, inquiries |-> seen,
              resp |-> Response(op, sid, 303, "/inquiries", "All inquiries marked as seen.")]

(***************************************************************************)
(* One browser shared by two agency owners.  The database holds what       *)
(* sign-up, verification, agency creation and public inquiries have put    *)
(* there: two verified identities, an agency of the first, two agencies of *)
(* the second, and an unseen inquiry for an agency of each.  The browser   *)
(* has loaded a form, so its session has a CSRF token.                     *)
(***************************************************************************)
TenantPassword == "pw1"

VerifiedUser(rows, email) ==
    [NewWebUser(rows, email, TenantPassword, 0) EXCEPT !.is_email_verified = TRUE,
                                                        !.email_verified_at = Some(0)]

TenantUsers ==
    LET first == VerifiedUser(<<>>, "a@x.com") IN <<first, VerifiedUser(<<first>>, "b@x.com")>>

TenantAgency(registration_id, user_id) ==
    [registration_id |-> registration_id, user_id |-> user_id, agencies_name |-> <<"S">>,
     city |-> <<"K">>, viewed_by_admin |-> FALSE, updated_at |-> 0]

TenantAgencies == <<TenantAgency(1, 1), TenantAgency(2, 2), TenantAgency(3, 2)>>

TenantInquiries ==
    <<[inquiry_id |-> 1, registration_id |-> 1, viewed_at |-> None],
      [inquiry_id |-> 2, registration_id |-> 2, viewed_at |-> None]>>

TenantInit ==
    /\ now = 0
    /\ users = TenantUsers
    /\ agencies = TenantAgencies
    /\ sessions = [s \in Sids |-> get_csrf_token(EmptySession, "csrf-1")]
    /\ cookies = [s \in Sids |-> None]
    /\ resp = NoResp
    /\ ret = NoRet
    /\ hist = NoHist
    /\ inflight = EmptyBag
    /\ tables = [EmptyTables EXCEPT !.inquiries = TenantInquiries]

\* like Handle, for the handlers that write to the inquiries table as well
HandleInquiries(s, handled) ==
    /\ SendResponse(s, handled)
    /\ tables' = [tables EXCEPT !.inquiries = handled.inquiries]
    /\ UNCHANGED <<now, ret, hist, agencies, inflight>>

PostLoginRedirect(s) ==
    Handle(s, post_login_redirect(s, sessions[s], users, agencies, cookies[s], now))

DashboardAgency(s, registration_id) ==
    Handle(s, dashboard_agency(s, sessions[s], users, agencies, cookies[s], registration_id, now))

SelectAgencySubmit(s, csrf_token, agency_id) ==
    Handle(s, select_agency_submit(s, sessions[s], users, agencies, cookies[s], csrf_token,
                                   agency_id, now))

InquiriesList(s) ==
    HandleInquiries(s, inquiries_list(s, sessions[s], users, agencies, tables.inquiries,
                                      cookies[s], now))

InquiriesMarkAllSeen(s, csrf_token) ==
    HandleInquiries(s, inquiries_mark_all_seen(s, sessions[s], users, agencies,
                                               tables.inquiries, cookies[s], csrf_token, now))

TenantNext ==
    \/ \E email \in SignupEmails : \E csrf_token \in CsrfFields(Browser) :
          LoginSubmit(Browser, csrf_token, email, TenantPassword, 0, TRUE)
    \/ \E csrf_token \in CsrfFields(Browser) : Logout(Browser, csrf_token)
    \/ PostLoginRedirect(Browser)
    \/ \E registration_id \in 1..Len(TenantAgencies) : DashboardAgency(Browser, registration_id)
    \/ \E agency_id \in 1..Len(TenantAgencies) : \E csrf_token \in CsrfFields(Browser) :
          SelectAgencySubmit(Browser, csrf_token, agency_id)
    \/ InquiriesList(Browser)
    \/ \E csrf_token \in CsrfFields(Browser) : InquiriesMarkAllSeen(Browser, csrf_token)

SpecTenant == TenantInit /\ [][TenantNext]_vars

\* the identity the browser's access cookie names
SignedIn(s) == get_current_user_from_cookie(cookies[s], users, now).user

\* C27: an operation that acts on the session's active_agency_id only reads or
\* updates inquiries of an agency owned by the currently authenticated user: a
\* request that changes an inquiry row comes from the owner of the row's
\* agency, and the inquiries a list page shows are of an agency of the user
\* it is shown to.
C27_ActiveAgencyIsOwned ==
    [][ /\ \A i \in 1..Len(tables.inquiries) :
             tables'.inquiries[i] # tables.inquiries[i]
                 => /\ SignedIn(Browser) # None
                    /\ OwnedAgency(agencies, tables.inquiries[i].registration_id,
                                   Get(SignedIn(Browser))) # None
        /\ \A i \in 1..Len(tables.inquiries) :
             (/\ resp'.op = "inquiries_list"
              /\ resp'.status = 200
              /\ tables.inquiries[i].inquiry_id \in Get(resp'.body))
                 => /\ SignedIn(Browser) # None
                    /\ OwnedAgency(agencies, tables.inquiries[i].registration_id,
                                   Get(SignedIn(Browser))) # None]_vars

(***************************************************************************)
(* app/web/routes.py: password reset.  A row of password_reset_tokens is   *)
(* its id, user_id, token_hash, expires_at and used.  The clock counts     *)
(* minutes.                                                                *)
(***************************************************************************)
PASSWORD_RESET_EXP_MINUTES == 60     \* settings.PASSWORD_RESET_EXP_MINUTES

\* hashlib.sha256(token.encode("utf-8")).hexdigest()
_hash_token(token) == <<"sha256", token>>

\* the row db.query(PasswordResetToken).filter(token_hash == ...).first() returns
FindToken(token_rows, token) ==
    IF \E i \in 1..Len(token_rows) : token_rows[i].token_hash = _hash_token(token)
    THEN Some(token_rows[CHOOSE i \in 1..Len(token_rows) :
                     /\ token_rows[i].token_hash = _hash_token(token)
                     /\ \A j \in 1..Len(token_rows) :
                           token_rows[j].token_hash = _hash_token(token) => i <= j])
    ELSE None

\* create_password_reset_token; token is the value secrets.token_urlsafe(32) returned
create_password_reset_token(token_rows, user_id, minutes, token, t) ==
    Append(token_rows, [id |-> Len(token_rows) + 1, user_id |-> user_id,
                        token_hash |-> _hash_token(token), expires_at |-> t + minutes,
                        used |-> FALSE])

\* a verify_and_consume_token that returns the user and leaves the row as it is
VerifyTokenNeverConsumes(token_rows, rows, token, t) ==
    LET found == FindToken(token_rows, token) IN
    IF found = None
    THEN [tokens |-> token_rows, user |-> None, err |-> "Invalid or expired token."]
    ELSE IF Get(found).expires_at < t
    THEN [tokens |-> token_rows, user |-> None, err |-> "This reset link has expired."]
    ELSE [tokens |-> token_rows, user |-> GetUser(rows, Get(found).user_id), err |-> ""]

\* verify_and_consume_token: the table after its commit, and the (user, err) it
\* returns, err "" standing for None; expires_at is NOT NULL
verify_and_consume_token(token_rows, rows, token, t) ==
    LET found == FindToken(token_rows, token)
        prt == Get(found)
    IN  IF found = None
        THEN [tokens |-> token_rows, user |-> None, err |-> "Invalid or expired token."]
        ELSE IF prt.used
        THEN [tokens |-> token_rows, user |-> None,
              err |-> "This reset link has already been used."]
        ELSE IF prt.expires_at < t
        THEN [tokens |-> token_rows, user |-> None, err |-> "This reset link has expired."]
        ELSE [tokens |-> [token_rows EXCEPT ![prt.id].used = TRUE],
              user |-> GetUser(rows, prt.user_id), err |-> ""]

\* a handler's outcome that leaves password_reset_tokens as it was
KeepTokens(h, token_rows) ==
    [session |-> h.session, users |-> h.users, raised |-> h.raised, resp |-> h.resp,
     tokens |-> token_rows]

MsgResetSent == "If an account for this email exists, we sent a reset link."

\* forgot_password_submit; the mail carries the plaintext token
forgot_password_submit(sid, sess, rows, token_rows, csrf_token, email, token, mail_ok, t) ==
    LET op == "forgot_password_submit"
        denied == require_csrf(sess, csrf_token)
        found == FindByEmail(rows, email)
        user == Get(found)
        issued == create_password_reset_token(token_rows, user.id, PASSWORD_RESET_EXP_MINUTES,
                                              token, t)
        mail == [to |-> user.email, token |-> token]
    IN  IF denied # "" THEN KeepTokens(CsrfRejected(op, sid, sess, rows, denied), token_rows)
        ELSE IF found = None
        THEN [session |-> sess, users |-> rows, raised |-> FALSE, tokens |-> token_rows,
              resp |-> Response(op, sid, 303, "/forgot-password", MsgResetSent)]
        ELSE IF ~mail_ok
        THEN KeepTokens(MailerRaised(op, sid, sess, rows, mail), issued)
        ELSE [session |-> sess, users |-> rows, raised |-> FALSE, tokens |-> issued,
              resp |-> [Response(op, sid, 303, "/forgot-password", MsgResetSent)
                          EXCEPT !.mail = Some(mail)]]

\* reset_password_submit; a failure of the confirmation mail is swallowed
reset_password_submit(sid, sess, rows, token_rows, csrf_token, token, password, password2, t) ==
    LET op == "reset_password_submit"
        denied == require_csrf(sess, csrf_token)
        verified == verify_and_consume_token(token_rows, rows, token, t)
        user == Get(verified.user)
    IN  IF denied # "" THEN KeepTokens(CsrfRejected(op, sid, sess, rows, denied), token_rows)
        ELSE IF password # password2
        THEN [session |-> sess, users |-> rows, raised |-> FALSE, tokens |-> token_rows,
              resp |-> Response(op, sid, 303, "/reset-password?token=" \o token,
                                "Passwords do not match.")]
        ELSE IF verified.err # ""
        THEN [session |-> sess, users |-> rows, raised |-> FALSE, tokens |-> verified.tokens,
              resp |-> Response(op, sid, 303, "/forgot-password", verified.err)]
        ELSE IF verified.user = None
        THEN [session |-> sess, users |-> rows, raised |-> FALSE, tokens |-> verified.tokens,
              resp |-> Response(op, sid, 303, "/forgot-password",
                                "Could not reset password. Try again.")]
        ELSE [session |-> sess,
              users |-> [rows EXCEPT ![user.id].password_hash = Some(hash_password(password))],
              raised |-> FALSE, tokens |-> verified.tokens,
              resp |-> Response(op, sid, 303, "/login",
                                "Password reset. You can now login with your new password.")]

(***************************************************************************)
(* One browser asking for reset links and submitting the reset form with   *)
(* tokens that were mailed, were never issued, were used or have expired.  *)
(* The clock advances to the instants at which a token's validity changes. *)
(***************************************************************************)
\* the values secrets.token_urlsafe(32) returns, each of them once
ResetTokenValues == {"tok-1", "tok-2"}
Issued(token_rows) == {token_rows[i].token_hash : i \in 1..Len(token_rows)}
ResetPasswords == {"pw1", "pw2"}

ForgotPasswordSubmit(s, csrf_token, email, token, mail_ok) ==
    LET h == forgot_password_submit(s, sessions[s], users, tables.password_reset_tokens,
                                    csrf_token, email, token, mail_ok, now)
    IN  /\ SendResponse(s, h)
        /\ tables' = [tables EXCEPT !.password_reset_tokens = h.tokens]
        /\ UNCHANGED <<now, ret, hist, agencies, inflight>>

\* the call record holds the form and the row the token named when the request arrived
ResetPasswordSubmit(s, csrf_token, token, password, password2) ==
    LET h == reset_password_submit(s, sessions[s], users, tables.password_reset_tokens,
                                   csrf_token, token, password, password2, now)
    IN  /\ SendResponse(s, h)
        /\ tables' = [tables EXCEPT !.password_reset_tokens = h.tokens]
        /\ ret' = [fn |-> "reset_password_submit", arg |-> token, minutes |-> 0, at |-> now,
                   pre |-> FindToken(tables.password_reset_tokens, token),
                   ok |-> password = password2,
                   msg |-> require_csrf(sessions[s], csrf_token), ctx |-> None]
        /\ UNCHANGED <<now, hist, agencies, inflight>>

\* time passes until a token is at its expires_at, or a minute past it
Advance(t) ==
    /\ t > now
    /\ now' = t
    /\ UNCHANGED <<users, sessions, cookies, resp, ret, hist, agencies, inflight, tables>>

ResetNext ==
    \/ \E token \in CsrfTokens : LoginPage(Browser, token)
    \/ \E email \in Emails, password \in SignupPasswords : ApiSignup(email, password)
    \/ \E email \in LoginEmails, token \in ResetTokenValues, mail_ok \in BOOLEAN :
          \E csrf_token \in CsrfFields(Browser) :
             /\ _hash_token(token) \notin Issued(tables.password_reset_tokens)
             /\ ForgotPasswordSubmit(Browser, csrf_token, email, token, mail_ok)
    \/ \E token \in ResetTokenValues, password \in ResetPasswords, password2 \in ResetPasswords :
          \E csrf_token \in CsrfFields(Browser) :
             ResetPasswordSubmit(Browser, csrf_token, token, password, password2)
    \/ \E i \in 1..Len(tables.password_reset_tokens) :
          \E t \in {tables.password_reset_tokens[i].expires_at,
                    tables.password_reset_tokens[i].expires_at + 1} : Advance(t)

SpecReset == Init /\ [][ResetNext]_vars

PasswordHashes(rows) == [i \in 1..Len(rows) |-> rows[i].password_hash]

\* the reset request of this step changed a password
ResetSucceeded == resp'.status = 303 /\ resp'.location = "/login"

\* C28: a password reset token changes a password at most once.  A request
\* succeeds only with a token whose row is unused and not past expires_at, and
\* it leaves the row used; a request with a token whose row is used does not
\* succeed and, when it gets as far as the token, fails as already used; a
\* request with an unknown or expired token or with a non-matching
\* confirmation leaves every password hash as it was, and the non-matching
\* one leaves the token rows as they were.
C28_ResetTokenUsedOnce ==
    [][(now' = now /\ resp'.op = "reset_password_submit" /\ ret'.fn = "reset_password_submit")
          => LET row == ret'.pre
                 after == FindToken(tables'.password_reset_tokens, ret'.arg)
                 complete == ret'.msg = "" /\ ret'.ok
             IN  /\ ResetSucceeded
                    => /\ row # None /\ ~Get(row).used /\ ~(Get(row).expires_at < now)
                       /\ complete
                       /\ Get(after).used
                 /\ (row # None /\ Get(row).used)
                    => /\ ~ResetSucceeded
                       /\ PasswordHashes(users') = PasswordHashes(users)
                       /\ complete => resp'.flash = "This reset link has already been used."
                 /\ (row = None \/ (row # None /\ Get(row).expires_at < now))
                    => PasswordHashes(users') = PasswordHashes(users)
                 /\ ~ret'.ok
                    => /\ PasswordHashes(users') = PasswordHashes(users)
                       /\ tables' = tables
                 /\ \A i \in 1..Len(tables.password_reset_tokens) :
                       tables.password_reset_tokens[i].used
                          => tables'.password_reset_tokens[i].used]_vars

\* a token changed the password to "pw2", and the request repeated with it was
\* refused as already used
C28_Witness ==
    /\ resp.op = "reset_password_submit"
    /\ resp.flash = "This reset link has already been used."
    /\ ret.pre # None
    /\ Get(ret.pre).used
    /\ users # <<>>
    /\ users[1].password_hash = Some(hash_password("pw2"))

(***************************************************************************)
(* app/web/routes.py: the public inquiry form of a package, its captcha    *)
(* and its honeypot field.  A package row is its package_id, the           *)
(* registration_id of its agency and days; no agency is blocked.           *)
(***************************************************************************)
DigitChars == {"0", "1", "2", "3", "4", "5", "6", "7", "8", "9"}
IsDigitChar(c) == c \in DigitChars

\* re.sub(r"\D", "", s)
OnlyDigits(s) == SelectSeq(s, IsDigitChar)

IsPhoneChar(c) == c \in DigitChars \cup {"+"}

normalize_phone(raw) ==
    LET kept == SelectSeq(raw, IsPhoneChar)
        plus == IF Len(kept) >= 2 /\ kept[1] = "0" /\ kept[2] = "0"
                THEN <<"+">> \o SubSeq(kept, 3, Len(kept))
                ELSE kept
    IN  IF plus # <<>> /\ plus[1] = "+" THEN <<"+">> \o OnlyDigits(Tail(plus)) ELSE plus

\* PHONE_E164_RE or PHONE_INDIA_RE matches the whole string
is_valid_phone(s) ==
    \/ /\ Len(s) \in 9..16
       /\ s[1] = "+"
       /\ s[2] \in DigitChars \ {"0"}
       /\ \A i \in 3..Len(s) : s[i] \in DigitChars
    \/ /\ Len(s) = 10
       /\ s[1] \in {"6", "7", "8", "9"}
       /\ \A i \in 2..Len(s) : s[i] \in DigitChars

\* new_captcha for the one tag of the model, pkg-inq:1; a and b are the values
\* random.randint(2, 9) returned
new_captcha(sess, a, b) == [sess EXCEPT !.captcha = Some(DecimalDigits(a + b))]

\* a check_captcha that reads the stored answer and leaves it in the session
CheckCaptchaKeepsAnswer(sess, user_answer) ==
    [session |-> sess,
     ok |-> sess.captcha # None /\ Get(sess.captcha) # <<>>
            /\ OnlyDigits(user_answer) = Get(sess.captcha)]

\* check_captcha: the session after the pop, and the value returned
check_captcha(sess, user_answer) ==
    [session |-> [sess EXCEPT !.captcha = None],
     ok |-> sess.captcha # None /\ Get(sess.captcha) # <<>>
            /\ OnlyDigits(user_answer) = Get(sess.captcha)]

GetPackage(package_rows, package_id) ==
    IF package_id \in 1..Len(package_rows) THEN Some(package_rows[package_id]) ELSE None

\* package_detail: the page with the inquiry form, its CSRF token and a new captcha
package_detail(sid, sess, rows, package_rows, package_id, token, a, b) ==
    LET op == "package_detail" IN
    IF GetPackage(package_rows, package_id) = None
    THEN [session |-> sess, users |-> rows, raised |-> FALSE,
          resp |-> Response(op, sid, 404, "", "Package not found")]
    ELSE [session |-> new_captcha(get_csrf_token(sess, token), a, b), users |-> rows,
          raised |-> FALSE, resp |-> Response(op, sid, 200, "", "")]

\* package_inquire_submit; form holds name, phone_number, inquiry, website and
\* captcha_answer; a and b are the draws of the captcha a wrong answer is replaced with
package_inquire_submit(sid, sess, rows, package_rows, inquiry_rows, package_id, csrf_token, form, a, b) ==
    LET op == "package_inquire_submit"
        denied == require_csrf(sess, csrf_token)
        back == "/umrah_packages/" \o ToString(package_id)
        pkg == GetPackage(package_rows, package_id)
        checked == check_captcha(sess, form.captcha_answer)
        row == [inquiry_id |-> Len(inquiry_rows) + 1,
                registration_id |-> Get(pkg).registration_id, viewed_at |-> None]
        same == [session |-> sess, users |-> rows, raised |-> FALSE, inquiries |-> inquiry_rows,
                 resp |-> Response(op, sid, 303, back, "")]
    IN  IF denied # "" THEN KeepInquiries(CsrfRejected(op, sid, sess, rows, denied), inquiry_rows)
        ELSE IF strip(form.website) # <<>>
        THEN [same EXCEPT !.resp.flash = "Thanks! Your inquiry was sent."]
        ELSE IF pkg = None
        THEN [same EXCEPT !.resp = Response(op, sid, 303, "/umrah_packages", "Package not found")]
        ELSE IF strip(form.name) = <<>> \/ strip(form.inquiry) = <<>>
        THEN [same EXCEPT !.resp.flash = "Please fill all required fields."]
        ELSE IF ~is_valid_phone(normalize_phone(strip(form.phone_number)))
        THEN [same EXCEPT !.resp.flash = "Enter a valid phone number"]
        ELSE IF ~checked.ok
        THEN [same EXCEPT !.session = new_captcha(checked.session, a, b),
                          !.resp.flash = "CAPTCHA was incorrect. Please try again."]
        ELSE [same EXCEPT !.session = checked.session,
                          !.inquiries = Append(inquiry_rows, row),
                          !.resp.flash = "Thanks! Your inquiry was sent."]

(***************************************************************************)
(* A visitor's browser on the page of a package.  The handlers run in a    *)
(* thread pool and the session travels in the cookie: a POST works on the  *)
(* session it was sent, and two POSTs sent before either response arrives  *)
(* carry the same session.  The database holds an owner, the owner's       *)
(* agency and one package.  hist counts the captchas issued and the POSTs  *)
(* sent.                                                                   *)
(***************************************************************************)
MaxCaptchas == 2       \* package pages are served while fewer captchas than this were issued
MaxPosts == 3          \* inquiry POSTs are admitted while fewer than this were sent
CaptchaDraws == {2, 3}      \* a part of randint(2, 9)

InquiryPackages == <<[package_id |-> 1, registration_id |-> 1, days |-> 1]>>

ValidPhone == <<"9", "8", "7", "6", "5", "4", "3", "2", "1", "0">>

\* what a visitor, or a script, puts into the form
InquiryForms ==
    [name : {<<"N">>}, inquiry : {<<"Q">>}, phone_number : {ValidPhone, <<"1", "2">>},
     website : {<<>>, <<"h">>},
     captcha_answer : {DecimalDigits(a + b) : a \in CaptchaDraws, b \in {2}}]

CaptchaInit ==
    /\ now = 0
    /\ users = <<VerifiedUser(<<>>, "a@x.com")>>
    /\ agencies = <<TenantAgency(1, 1)>>
    /\ sessions = [s \in Sids |-> EmptySession]
    /\ cookies = [s \in Sids |-> None]
    /\ resp = NoResp
    /\ ret = NoRet
    /\ hist = [issued |-> 0, posts |-> 0]
    /\ inflight = EmptyBag
    /\ tables = [EmptyTables EXCEPT !.packages = InquiryPackages]

PackageDetail(s, package_id, token, a, b) ==
    /\ hist.issued < MaxCaptchas
    /\ SendResponse(s, package_detail(s, sessions[s], users, tables.packages, package_id,
                                      token, a, b))
    /\ hist' = [hist EXCEPT !.issued = @ + 1]
    /\ UNCHANGED <<now, ret, agencies, inflight, tables>>

\* a POST arrives with the session the browser holds
InquireBegin(s, package_id, csrf_token, form) ==
    /\ BagCardinality(inflight) < NumWorkers
    /\ hist.posts < MaxPosts
    /\ inflight' = inflight (+) SetToBag({[kind |-> "inquire", sid |-> s,
                                           session |-> sessions[s], package_id |-> package_id,
                                           csrf_token |-> csrf_token, form |-> form]})
    /\ hist' = [hist EXCEPT !.posts = @ + 1]
    /\ UNCHANGED <<now, users, agencies, sessions, cookies, resp, ret, tables>>

\* the handler runs on the session the request carried and on the tables as they are;
\* the call record says whether the honeypot field was filled and whether a row was stored
InquireEnd(r, a, b) ==
    LET h == package_inquire_submit(r.sid, r.session, users, tables.packages,
                                    tables.inquiries, r.package_id, r.csrf_token, r.form, a, b)
    IN  /\ SendResponse(r.sid, h)
        /\ tables' = [tables EXCEPT !.inquiries = h.inquiries]
        /\ inflight' = inflight (-) SetToBag({r})
        /\ hist' = [hist EXCEPT !.issued =
                       IF h.session.captcha # None /\ r.session.captcha # h.session.captcha
                       THEN @ + 1 ELSE @]
        /\ ret' = [fn |-> "package_inquire_submit", arg |-> r.form.website, minutes |-> 0,
                   at |-> now, pre |-> r.session.captcha,
                   ok |-> Len(h.inquiries) > Len(tables.inquiries),
                   msg |-> h.resp.flash, ctx |-> None]
        /\ UNCHANGED <<now, agencies>>

CaptchaNext ==
    \/ \E token \in CsrfTokens, a \in CaptchaDraws, b \in {2} :
          PackageDetail(Browser, 1, token, a, b)
    \/ \E form \in InquiryForms : \E csrf_token \in CsrfFields(Browser) :
          InquireBegin(Browser, 1, csrf_token, form)
    \/ \E r \in BagToSet(inflight), a \in CaptchaDraws, b \in {2} : InquireEnd(r, a, b)

SpecCaptcha == CaptchaInit /\ [][CaptchaNext]_vars

\* C29: a captcha answer stored by new_captcha authorises at most one inquiry:
\* there are never more inquiries stored than captchas issued, and a POST
\* with the honeypot field filled stores no inquiry.
C29_OneInquiryPerCaptcha ==
    /\ Len(tables.inquiries) <= hist.issued
    /\ (ret.fn = "package_inquire_submit" /\ strip(ret.arg) # <<>>) => ~ret.ok

(***************************************************************************)
(* app/web/routes.py: the itinerary wizard of a package.  A row of         *)
(* package_itineraries is its package_id, day_number and notes; the table  *)
(* is the set of its rows.                                                 *)
(***************************************************************************)
Max(a, b) == IF a >= b THEN a ELSE b
Min(a, b) == IF a <= b THEN a ELSE b

\* (txt or "").strip() or None
NormNotes(txt) == IF strip(txt) = <<>> THEN None ELSE Some(strip(txt))

\* the row of this package and day gets the notes, or a new row is added
UpsertItinerary(itinerary_rows, package_id, day_number, notes) ==
    {e \in itinerary_rows : ~(e.package_id = package_id /\ e.day_number = day_number)}
        \cup {[package_id |-> package_id, day_number |-> day_number, notes |-> notes]}

\* notes_list padded with "" or cut to total_days
PadNotes(notes_list, total_days) ==
    [idx \in 1..Max(total_days, 0) |-> IF idx <= Len(notes_list) THEN notes_list[idx] ELSE <<>>]

RECURSIVE UpsertAll(_, _, _, _)
UpsertAll(itinerary_rows, package_id, notes_list, idx) ==
    IF idx > Len(notes_list) THEN itinerary_rows
    ELSE UpsertAll(UpsertItinerary(itinerary_rows, package_id, idx, NormNotes(notes_list[idx])),
                   package_id, notes_list, idx + 1)

\* a handler's outcome that leaves package_itineraries as it was
KeepItineraries(h, itinerary_rows) ==
    [session |-> h.session, users |-> h.users, raised |-> h.raised, resp |-> h.resp,
     itineraries |-> itinerary_rows]

WizardUrl(package_id) == "/package/" \o ToString(package_id) \o "/itinerary/wizard"

\* itinerary_wizard_page; the body of the page is current_day and total_days
itinerary_wizard_page(sid, sess, rows, agency_rows, package_rows, cookie, package_id, day, token, t) ==
    LET op == "itinerary_wizard_page"
        current == require_user(cookie, rows, t)
        found == GetPackage(package_rows, package_id)
        pkg == Get(found)
        total_days == Max(IF pkg.days = 0 THEN 1 ELSE pkg.days, 1)
        current_day == Min(Max(IF day = 0 THEN 1 ELSE day, 1), total_days)
    IN  IF current.user = None THEN NotSignedIn(op, sid, sess, rows, current)
        ELSE IF found = None
        THEN [session |-> sess, users |-> rows, raised |-> FALSE,
              resp |-> Response(op, sid, 303, "/select-agency", "Package not found")]
        ELSE IF OwnedAgency(agency_rows, pkg.registration_id, Get(current.user)) = None
        THEN [session |-> sess, users |-> rows, raised |-> FALSE,
              resp |-> Response(op, sid, 303, "/select-agency", "Not allowed")]
        ELSE [session |-> get_csrf_token(sess, token), users |-> rows, raised |-> FALSE,
              resp |-> [Response(op, sid, 200, "", "") EXCEPT
                           !.body = Some([package_id |-> package_id,
                                          current_day |-> current_day,
                                          total_days |-> total_days])]]

\* a redirect to a day of the wizard; the body is the query of its location
WizardRedirect(op, sid, package_id, day) ==
    [Response(op, sid, 303, WizardUrl(package_id) \o "?day=" \o ToString(day), "")
        EXCEPT !.body = Some([package_id |-> package_id, day |-> day])]

\* itinerary_wizard_submit; day_number is None when the form has no such field
itinerary_wizard_submit(sid, sess, rows, agency_rows, package_rows, itinerary_rows, cookie, package_id, csrf_token, day_number, notes, nav, t) ==
    LET op == "itinerary_wizard_submit"
        denied == require_csrf(sess, csrf_token)
        current == require_user(cookie, rows, t)
        found == GetPackage(package_rows, package_id)
        pkg == Get(found)
        total_days == pkg.days
        submitted_text == IF notes # <<>> THEN notes[1] ELSE <<>>
        one == UpsertItinerary(itinerary_rows, package_id, Get(day_number),
                               NormNotes(submitted_text))
        all == UpsertAll(itinerary_rows, package_id, PadNotes(notes, total_days), 1)
        same == [session |-> sess, users |-> rows, raised |-> FALSE,
                 itineraries |-> itinerary_rows, resp |-> Response(op, sid, 303, "", "")]
        saved == Response(op, sid, 303,
                          "/agency/" \o ToString(pkg.registration_id) \o "/dashboard",
                          "Itinerary saved.")
    IN  IF denied # ""
        THEN KeepItineraries(CsrfRejected(op, sid, sess, rows, denied), itinerary_rows)
        ELSE IF current.user = None
        THEN KeepItineraries(NotSignedIn(op, sid, sess, rows, current), itinerary_rows)
        ELSE IF found = None
        THEN [same EXCEPT !.resp = Response(op, sid, 303, "/select-agency", "Package not found")]
        ELSE IF OwnedAgency(agency_rows, pkg.registration_id, Get(current.user)) = None
        THEN [same EXCEPT !.resp = Response(op, sid, 303, "/select-agency",
                                            "Not allowed to edit this itinerary")]
        ELSE IF day_number # None
        THEN [same EXCEPT
                 !.itineraries = one,
                 !.resp = IF nav = "back"
                          THEN WizardRedirect(op, sid, package_id, Max(1, Get(day_number) - 1))
                          ELSE IF nav = "next"
                          THEN WizardRedirect(op, sid, package_id,
                                              Min(total_days, Get(day_number) + 1))
                          ELSE saved]
        ELSE [same EXCEPT !.itineraries = all, !.resp = saved]

(***************************************************************************)
(* An agency owner's browser in the itinerary wizard.  The database holds  *)
(* two verified owners with an agency each and a package of each agency;   *)
(* days of the first package is what package_new_submit accepted (1 or     *)
(* more) or what package_edit_submit stored later (any integer, 0 here).   *)
(***************************************************************************)
MaxDays == 2           \* days of the package: 0..MaxDays

WizardDays == 0..(MaxDays + 1)          \* the day query parameter and the day_number field
WizardNotes == {<<>>, <<<<"n">>>>, <<<<" ">>, <<"n">>, <<"n">>>>}
WizardNavs == {"back", "next", "save"}

WizardInit ==
    /\ now = 0
    /\ users = TenantUsers
    /\ agencies = <<TenantAgency(1, 1), TenantAgency(2, 2)>>
    /\ sessions = [s \in Sids |-> get_csrf_token(EmptySession, "csrf-1")]
    /\ cookies = [s \in Sids |-> None]
    /\ resp = NoResp
    /\ ret = NoRet
    /\ hist = NoHist
    /\ inflight = EmptyBag
    /\ \E days \in 0..MaxDays :
          tables = [EmptyTables EXCEPT !.packages =
                       <<[package_id |-> 1, registration_id |-> 1, days |-> days],
                         [package_id |-> 2, registration_id |-> 2, days |-> 1]>>]

ItineraryWizardPage(s, package_id, day, token) ==
    Handle(s, itinerary_wizard_page(s, sessions[s], users, agencies, tables.packages,
                                    cookies[s], package_id, day, token, now))

ItineraryWizardSubmit(s, package_id, csrf_token, day_number, notes, nav) ==
    LET h == itinerary_wizard_submit(s, sessions[s], users, agencies, tables.packages,
                                     tables.itineraries, cookies[s], package_id, csrf_token,
                                     day_number, notes, nav, now)
    IN  /\ SendResponse(s, h)
        /\ tables' = [tables EXCEPT !.itineraries = h.itineraries]
        /\ UNCHANGED <<now, ret, hist, agencies, inflight>>

WizardNext ==
    \/ \E csrf_token \in CsrfFields(Browser) :
          LoginSubmit(Browser, csrf_token, "a@x.com", TenantPassword, 0, TRUE)
    \/ \E package_id \in 1..2, day \in WizardDays, token \in CsrfTokens :
          ItineraryWizardPage(Browser, package_id, day, token)
    \/ \E package_id \in 1..2, day_number \in {None} \cup {Some(d) : d \in WizardDays},
          notes \in WizardNotes, nav \in WizardNavs :
          \E csrf_token \in CsrfFields(Browser) :
             ItineraryWizardSubmit(Browser, package_id, csrf_token, day_number, notes, nav)

SpecWizard == WizardInit /\ [][WizardNext]_vars

PackageDays(package_id) == tables.packages[package_id].days

\* C30: the itinerary wizard keeps the day inside the package's range: the page
\* shows a day in 1..max(days, 1), a 'back' or 'next' redirect targets a day in
\* 1..days, and no stored itinerary entry has a day_number outside 1..days of
\* its package.
C30_DayInRange ==
    /\ (resp.op = "itinerary_wizard_page" /\ resp.status = 200)
          => Get(resp.body).current_day
                \in 1..Max(PackageDays(Get(resp.body).package_id), 1)
    /\ (resp.op = "itinerary_wizard_submit" /\ resp.body # None)
          => Get(resp.body).day \in 1..PackageDays(Get(resp.body).package_id)
    /\ \A e \in tables.itineraries : e.day_number \in 1..PackageDays(e.package_id)


====
